---- MODULE Spec2Model ----
(***************************************************************************)
(* Model of the ach-file library (src/ach): the field/record encoding      *)
(* engine, the six NACHA record schemas, the file -> batch -> transaction  *)
(* tree with its cached control records, the renderer, the parser and the  *)
(* builder.  Text values are sequences of one-character strings.           *)
(***************************************************************************)
EXTENDS Integers, Sequences, FiniteSets, TLC

(***************************************************************************)
(* Characters and strings                                                   *)
(***************************************************************************)
Digits == <<"0", "1", "2", "3", "4", "5", "6", "7", "8", "9">>

DigitSet == {Digits[i] : i \in 1..10}

LetterSet == {"A", "B", "C", "D", "N", "O", "P", "T", "R", "M", "W", "Y"}

\* characters accepted by the AlphaNumFieldType pattern that the model uses
AlphaNumAllowed == DigitSet \cup LetterSet \cup {" ", "-", "."}

IsSpace(c) == c = " "

DigitVal(c) == CHOOSE d \in 0..9 : Digits[d + 1] = c

Rep(c, n) == [i \in 1..n |-> c]

AllIn(s, set) == \A i \in 1..Len(s) : s[i] \in set

\* str(n) for a non-negative integer
RECURSIVE IntToStr(_)
IntToStr(n) == IF n < 10 THEN <<Digits[n + 1]>>
               ELSE IntToStr(n \div 10) \o <<Digits[(n % 10) + 1]>>

\* int(s) for a non-empty string of digits
RECURSIVE StrToInt(_)
StrToInt(s) == IF Len(s) = 0 THEN 0
               ELSE 10 * StrToInt(SubSeq(s, 1, Len(s) - 1)) + DigitVal(s[Len(s)])

\* s[:n]
Prefix(s, n) == SubSeq(s, 1, IF n < Len(s) THEN n ELSE Len(s))

\* s[-n:] for n > 0
Suffix(s, n) == IF n < Len(s) THEN SubSeq(s, Len(s) - n + 1, Len(s)) ELSE s

\* s.lstrip()
RECURSIVE LStrip(_)
LStrip(s) == IF Len(s) > 0 /\ IsSpace(s[1]) THEN LStrip(Tail(s)) ELSE s

\* s.strip() == ""
IsBlank(s) == \A i \in 1..Len(s) : IsSpace(s[i])

\* re.sub of every character outside the set by the empty string
RECURSIVE Strip(_, _)
Strip(s, set) == IF Len(s) = 0 THEN <<>>
                 ELSE (IF s[1] \in set THEN <<s[1]>> ELSE <<>>) \o Strip(Tail(s), set)

\* str.split for a one-character separator
Split(text, sep) ==
    LET seps == SelectSeq([i \in 1..Len(text) |-> i], LAMBDA i : text[i] = sep)
    IN [k \in 1..(Len(seps) + 1) |->
           SubSeq(text, IF k = 1 THEN 1 ELSE seps[k - 1] + 1,
                        IF k = Len(seps) + 1 THEN Len(text) ELSE seps[k] - 1)]

\* sum() of a sequence of small integers
RECURSIVE SumInt(_)
SumInt(s) == IF Len(s) = 0 THEN 0
             ELSE IF Len(s) = 1 THEN s[1]
             ELSE SumInt(SubSeq(s, 1, Len(s) \div 2))
                  + SumInt(SubSeq(s, (Len(s) \div 2) + 1, Len(s)))

\* A Python int that can exceed the checker's integers is kept in two parts:
\* hi * 10^6 + lo with lo < 10^6.
Big(n) == [hi |-> n \div 1000000, lo |-> n % 1000000]

\* int(s) for a non-empty string of digits
PyInt(s) == [hi |-> StrToInt(SubSeq(s, 1, Len(s) - 6)),
             lo |-> StrToInt(SubSeq(s, IF Len(s) > 6 THEN Len(s) - 5 ELSE 1, Len(s)))]

\* str(n)
PyStr(n) == IF n.hi = 0 THEN IntToStr(n.lo)
            ELSE IntToStr(n.hi) \o Rep("0", 6 - Len(IntToStr(n.lo))) \o IntToStr(n.lo)

Add(a, b) == [hi |-> a.hi + b.hi + ((a.lo + b.lo) \div 1000000),
              lo |-> (a.lo + b.lo) % 1000000]

\* sum() of a sequence of ints
Sum(s) ==
    [hi |-> SumInt([i \in 1..Len(s) |-> s[i].hi])
            + (SumInt([i \in 1..Len(s) |-> s[i].lo]) \div 1000000),
     lo |-> SumInt([i \in 1..Len(s) |-> s[i].lo]) % 1000000]

\* math.ceil(a / float(b)) for an int a and a small positive b
CeilBig(a, b) ==
    Add([hi |-> a.hi \div b, lo |-> (((a.hi % b) * 1000000) + a.lo) \div b],
        Big(IF (((a.hi % b) * 1000000) + a.lo) % b = 0 THEN 0 ELSE 1))

\* the concatenation of the sequences of ss
RECURSIVE Concat(_)
Concat(ss) == IF Len(ss) = 0 THEN <<>>
              ELSE IF Len(ss) = 1 THEN ss[1]
              ELSE Concat(SubSeq(ss, 1, Len(ss) \div 2))
                   \o Concat(SubSeq(ss, (Len(ss) \div 2) + 1, Len(ss)))

\* math.ceil(a / float(b)) for non-negative a and positive b
Ceil(a, b) == (a + b - 1) \div b

(***************************************************************************)
(* constants.py                                                             *)
(***************************************************************************)
RECORD_SIZE == 94

FILE_HEADER_BLOCKING_FACTOR == 10

FILE_HEADER_RECORD_TYPE_CODE == 1

BATCH_HEADER_RECORD_TYPE_CODE == 5

ENTRY_DETAIL_RECORD_TYPE_CODE == 6

ADDENDA_RECORD_TYPE_CODE == 7

BATCH_CONTROL_RECORD_TYPE_CODE == 8

FILE_CONTROL_RECORD_TYPE_CODE == 9

\* the reading of the clock used by the NOW / TOMORROW sentinels
TodayYYMMDD == <<"2", "6", "1", "1", "0", "4">>

TomorrowYYMMDD == <<"2", "6", "1", "1", "0", "5">>

NowHHMM == <<"0", "9", "3", "0">>

(***************************************************************************)
(* record_fields.py: Alignment and the field types                          *)
(***************************************************************************)
\* str.ljust / str.rjust
align(side, input_string, length, fill) ==
    IF Len(input_string) >= length THEN input_string
    ELSE IF side = "LEFT"
         THEN input_string \o Rep(fill, length - Len(input_string))
         ELSE Rep(fill, length - Len(input_string)) \o input_string

truncate_never(side, input_string, length) == input_string

truncate(side, input_string, length) ==
    IF side = "LEFT" THEN Prefix(input_string, length)
    ELSE Suffix(input_string, length)

FieldTypes == {"Integer", "AlphaNum", "BlankPaddedRoutingNumber", "Date", "Time"}

padding(ft) == IF ft = "Integer" THEN "0" ELSE " "

alignment(ft) == IF ft \in {"Integer", "BlankPaddedRoutingNumber"} THEN "RIGHT" ELSE "LEFT"

auto_correct(ft) == ft # "Integer"

apply_fixed_length_as_left(ft, input_string, length) ==
    truncate("LEFT", align("LEFT", input_string, length, padding(ft)), length)

apply_fixed_length(ft, input_string, length) ==
    truncate(alignment(ft), align(alignment(ft), input_string, length, padding(ft)), length)

\* auto_correct_override is "None", "True" or "False"
should_correct_input_type_default(ft, auto_correct_override) == auto_correct(ft)

should_correct_input(ft, auto_correct_override) ==
    IF auto_correct_override # "None" THEN auto_correct_override = "True"
    ELSE auto_correct(ft)

\* cls.regex of each type, as a predicate on the whole string
regex(ft, s) ==
    CASE ft = "Integer" -> Len(s) >= 1 /\ AllIn(s, DigitSet)
      [] ft = "AlphaNum" -> Len(s) >= 1 /\ AllIn(s, AlphaNumAllowed)
      [] ft = "BlankPaddedRoutingNumber" ->
            \/ Len(s) = 9 /\ AllIn(s, DigitSet)
            \/ Len(s) = 10 /\ IsSpace(s[1]) /\ AllIn(Tail(s), DigitSet)
      [] ft = "Date" -> Len(s) = 6 /\ AllIn(s, DigitSet)
      [] ft = "Time" -> Len(s) = 4 /\ AllIn(s, DigitSet)

\* FieldType.do_validation: the empty string compares equal to the '' that
\* stands for "no match", so it always passes
base_do_validation(ft, s) == Len(s) = 0 \/ regex(ft, s)

DaysInMonth(y, m) ==
    IF m \in {4, 6, 9, 11} THEN 30
    ELSE IF m = 2 THEN (IF y % 4 = 0 THEN 29 ELSE 28)
    ELSE 31

\* datetime.date(2000 + yy, mm, dd) does not raise
IsCalendarDate(s) ==
    LET y == StrToInt(SubSeq(s, 1, 2))
        m == StrToInt(SubSeq(s, 3, 4))
        d == StrToInt(SubSeq(s, 5, 6))
    IN m \in 1..12 /\ d \in 1..DaysInMonth(y, m)

\* datetime.time(hh, mm) does not raise
IsTimeOfDay(s) ==
    StrToInt(SubSeq(s, 1, 2)) \in 0..23 /\ StrToInt(SubSeq(s, 3, 4)) \in 0..59

\* the outcome of cls.do_validation: "ok", "ValueMismatchesFieldTypeError"
\* or "ValueError"
do_validation(ft, s) ==
    IF ft \in {"Date", "Time"} /\ IsBlank(s) THEN "ok"
    ELSE IF ~base_do_validation(ft, s) THEN "ValueMismatchesFieldTypeError"
    ELSE IF ft = "Date" /\ ~IsCalendarDate(s) THEN "ValueError"
    ELSE IF ft = "Time" /\ ~IsTimeOfDay(s) THEN "ValueError"
    ELSE "ok"

is_valid(ft, s) == do_validation(ft, s) = "ok"

NOW == <<"N", "O", "W">>

TOMORROW == <<"T", "O", "M", "O", "R", "R", "O", "W">>

\* datetime.date.fromisoformat for the YYYY-MM-DD form
IsIsoDate(s) ==
    /\ Len(s) = 10
    /\ s[5] = "-" /\ s[8] = "-"
    /\ AllIn(SubSeq(s, 1, 4) \o SubSeq(s, 6, 7) \o SubSeq(s, 9, 10), DigitSet)
    /\ StrToInt(SubSeq(s, 1, 4)) >= 1
    /\ StrToInt(SubSeq(s, 6, 7)) \in 1..12
    /\ StrToInt(SubSeq(s, 9, 10)) \in
          1..DaysInMonth(StrToInt(SubSeq(s, 1, 4)), StrToInt(SubSeq(s, 6, 7)))

\* cls.correct_input: every type returns a valid (or empty) input as it is
correct_input(ft, input_string, auto_correct_override) ==
    IF ft = "Integer" \/ ~should_correct_input(ft, auto_correct_override) THEN input_string
    ELSE IF ft = "AlphaNum" THEN Strip(input_string, AlphaNumAllowed)
    ELSE IF is_valid(ft, input_string) THEN input_string
    ELSE IF ft = "BlankPaddedRoutingNumber"
         THEN (IF Len(LStrip(input_string)) > 0 /\ AllIn(LStrip(input_string), DigitSet)
               THEN align("RIGHT", input_string, 9, "0")
               ELSE input_string)
    ELSE IF input_string = NOW THEN (IF ft = "Date" THEN TodayYYMMDD ELSE NowHHMM)
    ELSE IF input_string = TOMORROW
         THEN (IF ft = "Date" THEN TomorrowYYMMDD ELSE <<"0", "0", "0", "0">>)
    ELSE IF IsIsoDate(input_string)
         THEN (IF ft = "Date"
               THEN SubSeq(input_string, 3, 4) \o SubSeq(input_string, 6, 7)
                    \o SubSeq(input_string, 9, 10)
               ELSE <<"0", "0", "0", "0">>)
    ELSE input_string

(***************************************************************************)
(* record_fields.py: FieldDefinition and Field                              *)
(***************************************************************************)
\* An optional value is a sequence of length 0 (None) or 1.
None == <<>>

Some(v) == <<v>>

\* FieldDefinition(field_name, field_type, length, required, default,
\* auto_correct_input); key is the name the schema files the definition under
FieldDefinition(key, ft, length, required, default, auto) ==
    [key |-> key, field_type |-> ft, length |-> length, required |-> required,
     default |-> default, auto_correct_input |-> auto]

_validate_required_value_not_empty(fd, value) ==
    IF value = None /\ fd.required /\ fd.default = None
    THEN "EmptyRequiredFieldError" ELSE "ok"

\* Field._create_cleaned_value, from the corrected input on
validated(fd, ret_value) ==
    IF do_validation(fd.field_type, ret_value) # "ok"
    THEN [exc |-> do_validation(fd.field_type, ret_value), value |-> ret_value]
    ELSE [exc |-> "ok", value |-> apply_fixed_length(fd.field_type, ret_value, fd.length)]

\* Field._create_cleaned_value: value is None or Some(str(value))
_create_cleaned_value_default_first(fd, value) ==
    IF _validate_required_value_not_empty(fd, value) # "ok"
    THEN [exc |-> "EmptyRequiredFieldError", value |-> <<>>]
    ELSE validated(fd, correct_input(fd.field_type,
                                     IF fd.default # None THEN fd.default[1]
                                     ELSE IF value = None THEN <<>> ELSE value[1],
                                     fd.auto_correct_input))

_create_cleaned_value(fd, value) ==
    IF _validate_required_value_not_empty(fd, value) # "ok"
    THEN [exc |-> "EmptyRequiredFieldError", value |-> <<>>]
    ELSE validated(fd, correct_input(fd.field_type,
                                     IF value # None THEN value[1]
                                     ELSE IF fd.default = None THEN <<>> ELSE fd.default[1],
                                     fd.auto_correct_input))

(***************************************************************************)
(* The six record schemas                                                   *)
(***************************************************************************)
FileHeaderFields == <<
    FieldDefinition("record_type_code", "Integer", 1, TRUE,
                    Some(IntToStr(FILE_HEADER_RECORD_TYPE_CODE)), "None"),
    FieldDefinition("priority_code", "Integer", 2, TRUE, Some(<<"1">>), "None"),
    FieldDefinition("destination_routing", "BlankPaddedRoutingNumber", 10, TRUE, None, "True"),
    FieldDefinition("company_identification", "Integer", 10, TRUE, None, "None"),
    FieldDefinition("file_creation_date", "Date", 6, TRUE, Some(NOW), "True"),
    FieldDefinition("file_creation_time", "Time", 4, FALSE, None, "None"),
    FieldDefinition("file_id_modifier", "AlphaNum", 1, TRUE, Some(<<"A">>), "None"),
    FieldDefinition("record size", "Integer", 3, TRUE, Some(IntToStr(RECORD_SIZE)), "None"),
    FieldDefinition("blocking_factor", "Integer", 2, TRUE,
                    Some(IntToStr(FILE_HEADER_BLOCKING_FACTOR)), "None"),
    FieldDefinition("format_code", "Integer", 1, TRUE, Some(<<"1">>), "None"),
    FieldDefinition("destination_name", "AlphaNum", 23, TRUE, None, "None"),
    FieldDefinition("origin_name", "AlphaNum", 23, TRUE, None, "None"),
    FieldDefinition("reference_code", "AlphaNum", 8, TRUE, Some(<<>>), "None") >>

FileControlFields == <<
    FieldDefinition("record_type_code", "Integer", 1, TRUE,
                    Some(IntToStr(FILE_CONTROL_RECORD_TYPE_CODE)), "None"),
    FieldDefinition("batch_count", "Integer", 6, TRUE, None, "None"),
    FieldDefinition("block_count", "Integer", 6, TRUE, None, "None"),
    FieldDefinition("entry_and_addenda_count", "Integer", 8, TRUE, None, "None"),
    FieldDefinition("entry_hash", "Integer", 10, TRUE, None, "None"),
    FieldDefinition("total_debit_amount", "Integer", 12, TRUE, None, "None"),
    FieldDefinition("total_credit_amount", "Integer", 12, TRUE, None, "None"),
    FieldDefinition("reserved", "AlphaNum", 39, FALSE, None, "None") >>

BatchHeaderFields == <<
    FieldDefinition("record_type_code", "Integer", 1, TRUE,
                    Some(IntToStr(BATCH_HEADER_RECORD_TYPE_CODE)), "None"),
    FieldDefinition("service_class_code", "Integer", 3, TRUE, Some(<<"2", "0", "0">>), "None"),
    FieldDefinition("company_name", "AlphaNum", 16, TRUE, None, "None"),
    FieldDefinition("company_discretionary_data", "AlphaNum", 20, FALSE, None, "None"),
    FieldDefinition("company_identification", "Integer", 10, TRUE, None, "None"),
    FieldDefinition("standard_entry_class_code", "AlphaNum", 3, TRUE,
                    Some(<<"P", "P", "D">>), "None"),
    FieldDefinition("company_entry_description", "AlphaNum", 10, TRUE, None, "None"),
    FieldDefinition("company_descriptive_date", "Date", 6, FALSE, None, "None"),
    FieldDefinition("effective_entry_date", "Date", 6, TRUE, Some(TOMORROW), "True"),
    FieldDefinition("settlement_date", "AlphaNum", 3, FALSE, None, "None"),
    FieldDefinition("originator_status_code", "Integer", 1, TRUE, Some(<<"1">>), "None"),
    FieldDefinition("odfi_identification", "Integer", 8, TRUE, None, "None"),
    FieldDefinition("batch_number", "Integer", 7, TRUE, None, "None") >>

BatchControlFields == <<
    FieldDefinition("record_type_code", "Integer", 1, TRUE,
                    Some(IntToStr(BATCH_CONTROL_RECORD_TYPE_CODE)), "None"),
    FieldDefinition("service_class_code", "Integer", 3, TRUE, Some(<<"2", "0", "0">>), "None"),
    FieldDefinition("entry_and_addenda_count", "Integer", 6, TRUE, None, "None"),
    FieldDefinition("entry_hash", "Integer", 10, TRUE, None, "None"),
    FieldDefinition("total_debit_amount", "Integer", 12, TRUE, None, "None"),
    FieldDefinition("total_credit_amount", "Integer", 12, TRUE, None, "None"),
    FieldDefinition("company_identification", "Integer", 10, TRUE, None, "None"),
    FieldDefinition("message_authentication_code", "AlphaNum", 19, FALSE, None, "None"),
    FieldDefinition("reserved", "AlphaNum", 6, FALSE, None, "None"),
    FieldDefinition("odfi_identification", "Integer", 8, TRUE, None, "None"),
    FieldDefinition("batch_number", "Integer", 7, TRUE, None, "None") >>

EntryDetailFields == <<
    FieldDefinition("record_type_code", "Integer", 1, TRUE,
                    Some(IntToStr(ENTRY_DETAIL_RECORD_TYPE_CODE)), "None"),
    FieldDefinition("transaction_code", "Integer", 2, TRUE, None, "None"),
    FieldDefinition("rdfi_routing", "Integer", 9, TRUE, None, "None"),
    FieldDefinition("rdfi_account_number", "AlphaNum", 17, TRUE, None, "None"),
    FieldDefinition("amount", "Integer", 10, TRUE, None, "None"),
    FieldDefinition("individual_identification_number", "AlphaNum", 15, FALSE, None, "None"),
    FieldDefinition("individual_name", "AlphaNum", 22, TRUE, None, "None"),
    FieldDefinition("discretionary_data", "AlphaNum", 2, FALSE, None, "None"),
    FieldDefinition("addenda_record_indicator", "Integer", 1, TRUE, Some(<<"1">>), "None"),
    FieldDefinition("trace_odfi_identifier", "Integer", 8, TRUE, None, "None"),
    FieldDefinition("trace_sequence_number", "Integer", 7, TRUE, None, "None") >>

AddendaFields == <<
    FieldDefinition("record_type_code", "Integer", 1, TRUE,
                    Some(IntToStr(ADDENDA_RECORD_TYPE_CODE)), "None"),
    FieldDefinition("addenda_type_code", "Integer", 2, TRUE, Some(<<"5">>), "None"),
    FieldDefinition("payment_related_information", "AlphaNum", 80, FALSE, None, "None"),
    FieldDefinition("addenda_sequence_number", "Integer", 4, TRUE, Some(<<"1">>), "None"),
    FieldDefinition("entry_detail_sequence_number", "Integer", 7, TRUE, None, "None") >>

RecordClasses == {"FileHeader", "BatchHeader", "EntryDetail", "Addenda",
                  "BatchControl", "FileControl"}

field_definition_dict(cls) ==
    CASE cls = "FileHeader" -> FileHeaderFields
      [] cls = "BatchHeader" -> BatchHeaderFields
      [] cls = "EntryDetail" -> EntryDetailFields
      [] cls = "Addenda" -> AddendaFields
      [] cls = "BatchControl" -> BatchControlFields
      [] cls = "FileControl" -> FileControlFields

\* the positional parameters of each subclass constructor
PositionalArgs(cls) ==
    CASE cls = "FileHeader" ->
            {"destination_routing", "company_identification", "destination_name", "origin_name"}
      [] cls = "BatchHeader" ->
            {"company_name", "company_identification", "company_entry_description",
             "odfi_identification", "batch_number"}
      [] cls = "EntryDetail" ->
            {"transaction_code", "rdfi_routing", "rdfi_account_number", "amount",
             "individual_name"}
      [] cls = "Addenda" -> {"payment_related_information", "entry_detail_sequence_number"}
      [] cls = "BatchControl" ->
            {"entry_and_addenda_count", "entry_hash", "total_debit_amount",
             "total_credit_amount", "company_identification", "odfi_identification",
             "batch_number"}
      [] cls = "FileControl" -> {}

Keys(schema) == {schema[i].key : i \in 1..Len(schema)}

(***************************************************************************)
(* record_type_base.py: RecordType                                          *)
(***************************************************************************)
\* the sum of the schema's field lengths
RECURSIVE SchemaSize(_)
SchemaSize(schema) ==
    IF Len(schema) = 0 THEN 0 ELSE schema[1].length + SchemaSize(Tail(schema))

_validate_field_definition_list(schema, desired_record_size) ==
    IF SchemaSize(schema) # desired_record_size THEN "InvalidRecordSizeError" ELSE "ok"

_validate_no_unknown_key_arguments(schema, kwargs) ==
    IF (DOMAIN kwargs) \ Keys(schema) # {} THEN "InvalidRecordTypeParametersError" ELSE "ok"

\* kwargs.get(key)
Get(kwargs, key) == IF key \in DOMAIN kwargs THEN Some(kwargs[key]) ELSE None

\* the positions, in schema order, of the fields whose construction raised
failed_positions_first_only(made) ==
    SelectSeq([i \in 1..Len(made) |-> i],
              LAMBDA i : made[i].exc # "ok" /\ \A j \in 1..(i - 1) : made[j].exc = "ok")

failed_positions(made) ==
    SelectSeq([i \in 1..Len(made) |-> i], LAMBDA i : made[i].exc # "ok")

\* the fields made by Field(definition, value), collected: every field is
\* attempted, the failures are raised together
collect_fields(schema, made) ==
    [exc |-> IF \E i \in 1..Len(schema) : made[i].exc # "ok"
             THEN "RecordTypeAggregateFieldCreationError" ELSE "ok",
     errors |-> [i \in 1..Len(schema) |-> made[i].exc],
     failed_keys |-> [j \in 1..Len(failed_positions(made)) |->
                         schema[failed_positions(made)[j]].key],
     exceptions |-> [j \in 1..Len(failed_positions(made)) |->
                        made[failed_positions(made)[j]].exc],
     invalid_kwargs |-> {},
     keys |-> [i \in 1..Len(schema) |-> schema[i].key],
     fields |-> [k \in Keys(schema) |->
                   made[CHOOSE i \in 1..Len(schema) : schema[i].key = k].value]]

\* RecordType._generate_fields_dict
_generate_fields_dict(schema, kwargs) ==
    collect_fields(schema, [i \in 1..Len(schema) |->
                               _create_cleaned_value(schema[i], Get(kwargs, schema[i].key))])

Raise(exc) ==
    [exc |-> exc, errors |-> <<>>, failed_keys |-> <<>>, exceptions |-> <<>>,
     invalid_kwargs |-> {}, keys |-> <<>>, fields |-> <<>>]

\* RecordType.__init__
record_type_init(schema, positional, kwargs) ==
    IF ~(positional \subseteq DOMAIN kwargs) THEN Raise("TypeError")
    ELSE IF _validate_field_definition_list(schema, RECORD_SIZE) # "ok"
         THEN Raise("InvalidRecordSizeError")
    ELSE IF _validate_no_unknown_key_arguments(schema, kwargs) # "ok"
         THEN [Raise("InvalidRecordTypeParametersError")
                  EXCEPT !.invalid_kwargs = (DOMAIN kwargs) \ Keys(schema)]
    ELSE _generate_fields_dict(schema, kwargs)

\* the subclass constructor cls(**kwargs): the outcome with the record's
\* fields, an insertion-ordered dictionary (keys in order, and the values)
\* EntryDetailRecordType.__init__: a trace_number is cut into the two trace
\* fields, whatever was passed for them
entry_detail_kwargs(kwargs) ==
    IF "trace_number" \in DOMAIN kwargs
    THEN ("trace_odfi_identifier" :> Prefix(kwargs["trace_number"], 8))
         @@ ("trace_sequence_number" :>
                SubSeq(kwargs["trace_number"], 9,
                       IF Len(kwargs["trace_number"]) < 15 THEN Len(kwargs["trace_number"])
                       ELSE 15))
         @@ [k \in (DOMAIN kwargs) \ {"trace_number"} |-> kwargs[k]]
    ELSE kwargs

RecordType(cls, kwargs) ==
    record_type_init(field_definition_dict(cls), PositionalArgs(cls),
                     IF cls = "EntryDetail" THEN entry_detail_kwargs(kwargs) ELSE kwargs)

\* the constructed record
Record(cls, made) == [cls |-> cls, keys |-> made.keys, fields |-> made.fields]

get_field_value(record, field_name) == record.fields[field_name]

render_record_line(record) ==
    Concat([i \in 1..Len(record.keys) |-> record.fields[record.keys[i]]])

(***************************************************************************)
(* constants.py: TransactionCode                                            *)
(***************************************************************************)
is_credit(code) == code % 10 < 5

is_debit(code) == code % 10 >= 5

is_prenote(code) == code % 10 \in {3, 8}

is_checking(code) == code \div 10 = 2

is_savings(code) == code \div 10 = 3

\* the members the enumeration declares, by value
TransactionCodeMembers ==
    (22 :> "CHECKING_CREDIT") @@ (23 :> "CHECKING_CREDIT_PRENOTE")
    @@ (27 :> "CHECKING_DEBIT") @@ (28 :> "CHECKING_DEBIT_PRENOTE")
    @@ (32 :> "SAVINGS_CREDIT") @@ (33 :> "SAVINGS_CREDIT_PRENOTE")
    @@ (37 :> "SAVINGS_DEBIT") @@ (38 :> "SAVINGS_DEBIT_PRENOTE")

\* TransactionCode._create_pseudo_member: a member made for any other value
_create_pseudo_member(value) ==
    [exc |-> "ok", name |-> <<"UNKNOWN", value>>, value |-> value]

_missing_(value) == _create_pseudo_member(value)

\* TransactionCode(value): the lookup by value of the enumeration, which
\* raises ValueError only when _missing_ returns no member
TransactionCode(value) ==
    IF value \in DOMAIN TransactionCodeMembers
    THEN [exc |-> "ok", name |-> <<TransactionCodeMembers[value]>>, value |-> value]
    ELSE _missing_(value)

(***************************************************************************)
(* file_structure.py: ACHTransactionEntry                                   *)
(***************************************************************************)
\* entry is None or Some(record): the parser can hand over None
ACHTransactionEntry(entry, addendas) == [entry |-> entry, addendas |-> addendas]

get_entry_and_addenda_count(tx) == Big(Len(tx.addendas) + 1)

get_entry_hash_int_whole_routing(tx) == PyInt(get_field_value(tx.entry[1], "rdfi_routing"))

get_entry_hash_int(tx) == PyInt(Prefix(get_field_value(tx.entry[1], "rdfi_routing"), 8))

get_transaction_code_enum(tx) == StrToInt(get_field_value(tx.entry[1], "transaction_code"))

get_amount(tx) == PyInt(get_field_value(tx.entry[1], "amount"))

get_debit_amount_of_any_code(tx) == get_amount(tx)

get_debit_amount(tx) == IF is_debit(get_transaction_code_enum(tx)) THEN get_amount(tx) ELSE Big(0)

get_credit_amount(tx) == IF is_credit(get_transaction_code_enum(tx)) THEN get_amount(tx) ELSE Big(0)

tx_addendas_before_entry(tx) ==
    [i \in 1..Len(tx.addendas) |-> render_record_line(tx.addendas[i])]
    \o <<render_record_line(tx.entry[1])>>

tx_get_rendered_line_list(tx) ==
    <<render_record_line(tx.entry[1])>>
    \o [i \in 1..Len(tx.addendas) |-> render_record_line(tx.addendas[i])]

(***************************************************************************)
(* file_structure.py: ACHBatch                                              *)
(***************************************************************************)
ACHBatch(batch_header_record, transactions) ==
    [batch_header_record |-> batch_header_record,
     transactions |-> transactions,
     batch_control_record |-> None,
     recalc_batch_control |-> FALSE]

batch_compute_entry_hash(batch) ==
    Sum([i \in 1..Len(batch.transactions) |-> get_entry_hash_int(batch.transactions[i])])

batch_compute_entries_only(batch) == Big(Len(batch.transactions))

batch_compute_entry_and_addenda_count(batch) ==
    Sum([i \in 1..Len(batch.transactions) |->
               get_entry_and_addenda_count(batch.transactions[i])])

batch_compute_debit_total(batch) ==
    Sum([i \in 1..Len(batch.transactions) |-> get_debit_amount(batch.transactions[i])])

batch_compute_credit_total(batch) ==
    Sum([i \in 1..Len(batch.transactions) |-> get_credit_amount(batch.transactions[i])])

\* the keyword arguments handed to BatchControlRecordType
batch_control_kwargs(batch) ==
    [entry_and_addenda_count |-> PyStr(batch_compute_entry_and_addenda_count(batch)),
     entry_hash |-> PyStr(batch_compute_entry_hash(batch)),
     total_debit_amount |-> PyStr(batch_compute_debit_total(batch)),
     total_credit_amount |-> PyStr(batch_compute_credit_total(batch)),
     service_class_code |-> get_field_value(batch.batch_header_record, "service_class_code"),
     company_identification |->
         get_field_value(batch.batch_header_record, "company_identification"),
     odfi_identification |-> get_field_value(batch.batch_header_record, "odfi_identification"),
     batch_number |-> get_field_value(batch.batch_header_record, "batch_number")]

_compute_batch_control_record(batch) ==
    Record("BatchControl", RecordType("BatchControl", batch_control_kwargs(batch)))

\* the batch_control_record property: the value read
batch_control_record(batch) ==
    IF batch.batch_control_record # None /\ ~batch.recalc_batch_control
    THEN batch.batch_control_record[1]
    ELSE _compute_batch_control_record(batch)

\* the batch_control_record property: the batch after the read
batch_after_read(batch) ==
    [batch EXCEPT !.batch_control_record = Some(batch_control_record(batch))]

batch_get_rendered_line_list(batch) ==
    <<render_record_line(batch.batch_header_record)>>
    \o Concat([i \in 1..Len(batch.transactions) |->
                  tx_get_rendered_line_list(batch.transactions[i])])
    \o <<render_record_line(batch_control_record(batch))>>

(***************************************************************************)
(* file_structure.py: ACHFileContents                                       *)
(***************************************************************************)
\* the batch_control_record of every batch, as the computations read them
batch_controls(bs) == [i \in 1..Len(bs) |-> batch_control_record(bs[i])]

SumFieldOfFirst(controls, field_name) ==
    Sum([i \in 1..(IF Len(controls) = 0 THEN 0 ELSE 1) |->
            PyInt(get_field_value(controls[i], field_name))])

SumField(controls, field_name) ==
    Sum([i \in 1..Len(controls) |-> PyInt(get_field_value(controls[i], field_name))])

_compute_line_count(batch_count, entry_addenda_count) ==
    Add(Add(entry_addenda_count, Big(batch_count * 2)), Big(2))

_compute_block_count(batch_count, entry_addenda_count) ==
    CeilBig(_compute_line_count(batch_count, entry_addenda_count), FILE_HEADER_BLOCKING_FACTOR)

\* the keyword arguments handed to FileControlRecordType
file_control_kwargs(controls) ==
    [batch_count |-> IntToStr(Len(controls)),
     block_count |-> PyStr(_compute_block_count(
                        Len(controls), SumField(controls, "entry_and_addenda_count"))),
     entry_and_addenda_count |-> PyStr(SumField(controls, "entry_and_addenda_count")),
     entry_hash |-> PyStr(SumField(controls, "entry_hash")),
     total_credit_amount |-> PyStr(SumField(controls, "total_credit_amount")),
     total_debit_amount |-> PyStr(SumField(controls, "total_debit_amount"))]

file_control_from(controls) ==
    Record("FileControl", RecordType("FileControl", file_control_kwargs(controls)))

_compute_file_control_record(bs) == file_control_from(batch_controls(bs))

\* the file_control_record property: the value read from a file whose
\* batches are bs, cached control fc and stale mark recalc
file_control_record_get(bs, fc, recalc) ==
    IF fc # None /\ ~recalc THEN fc[1] ELSE _compute_file_control_record(bs)

\* the batches after that read: a recomputation reads every batch control
batches_after_file_read(bs, fc, recalc) ==
    IF fc # None /\ ~recalc THEN bs ELSE [i \in 1..Len(bs) |-> batch_after_read(bs[i])]

\* get_rendered_line_list of the file
get_rendered_line_list(header, bs, fc, recalc) ==
    <<render_record_line(header)>>
    \o Concat([i \in 1..Len(bs) |-> batch_get_rendered_line_list(bs[i])])
    \o <<render_record_line(file_control_record_get(bs, fc, recalc))>>

FillerLine == Rep("9", RECORD_SIZE)

\* str.join
Join(lines, line_break) ==
    Concat([i \in 1..Len(lines) |-> IF i = 1 THEN lines[i] ELSE line_break \o lines[i]])

join_and_pad_always(rendered_line_list, line_break, end) ==
    Join(rendered_line_list, line_break)
    \o Concat([i \in 1..(FILE_HEADER_BLOCKING_FACTOR
                             - (Len(rendered_line_list) % FILE_HEADER_BLOCKING_FACTOR)) |->
                   line_break \o FillerLine])
    \o end

\* the text of the rendered lines: fillers complete the last block
join_and_pad(rendered_line_list, line_break, end) ==
    Join(rendered_line_list, line_break)
    \o (IF Len(rendered_line_list) % FILE_HEADER_BLOCKING_FACTOR # 0
        THEN Concat([i \in 1..(FILE_HEADER_BLOCKING_FACTOR
                                  - (Len(rendered_line_list) % FILE_HEADER_BLOCKING_FACTOR)) |->
                        line_break \o FillerLine])
        ELSE <<>>)
    \o end

render_file_contents(header, bs, fc, recalc, line_break, end) ==
    join_and_pad(get_rendered_line_list(header, bs, fc, recalc), line_break, end)

\* list.pop(index) / list[index]: the 1-based position, 0 when out of range
PyIndex(len, index) ==
    IF index >= 0 THEN (IF index < len THEN index + 1 ELSE 0)
    ELSE (IF len + index >= 0 THEN len + index + 1 ELSE 0)

RemoveAt(seq, pos) == SubSeq(seq, 1, pos - 1) \o SubSeq(seq, pos + 1, Len(seq))

(***************************************************************************)
(* file_parser.py: ACHFileContentsParser                                    *)
(***************************************************************************)
\* the class of a line's first character: "None" when the map has no such
\* code, "ValueError" when int() rejects the character
get_record_type_from_record_type_code(record_type_code) ==
    IF record_type_code \notin DigitSet THEN "ValueError"
    ELSE CASE DigitVal(record_type_code) = ADDENDA_RECORD_TYPE_CODE -> "Addenda"
           [] DigitVal(record_type_code) = BATCH_CONTROL_RECORD_TYPE_CODE -> "BatchControl"
           [] DigitVal(record_type_code) = BATCH_HEADER_RECORD_TYPE_CODE -> "BatchHeader"
           [] DigitVal(record_type_code) = ENTRY_DETAIL_RECORD_TYPE_CODE -> "EntryDetail"
           [] DigitVal(record_type_code) = FILE_CONTROL_RECORD_TYPE_CODE -> "FileControl"
           [] DigitVal(record_type_code) = FILE_HEADER_RECORD_TYPE_CODE -> "FileHeader"
           [] OTHER -> "None"

\* the keyword arguments cut out of the line: consecutive slices of the
\* schema's widths
line_kwargs(line_str, schema) ==
    [k \in Keys(schema) |->
        LET i == CHOOSE i \in 1..Len(schema) : schema[i].key = k
            str_index == SumInt([j \in 1..(i - 1) |-> schema[j].length])
        IN SubSeq(line_str, str_index + 1,
                  IF str_index + schema[i].length < Len(line_str)
                  THEN str_index + schema[i].length ELSE Len(line_str))]

\* the record of a successful construction, or its exception
constructed(cls, made) ==
    [exc |-> made.exc, value |-> IF made.exc = "ok" THEN Record(cls, made) ELSE <<>>]

convert_line_to_record_type(line_str, record_type_class) ==
    constructed(record_type_class,
                RecordType(record_type_class,
                           line_kwargs(line_str, field_definition_dict(record_type_class))))

\* one step of the loop of convert_file_string_to_records_list
line_to_record(line, record_type_class) ==
    IF record_type_class = "ValueError" THEN [exc |-> "ValueError", value |-> <<>>]
    ELSE IF record_type_class = "None" THEN [exc |-> "AttributeError", value |-> <<>>]
    ELSE convert_line_to_record_type(line, record_type_class)

\* the records of the lines, or the first exception
records_or_exception(made) ==
    IF \E i \in 1..Len(made) : made[i].exc # "ok"
    THEN [exc |-> made[CHOOSE i \in 1..Len(made) :
                          made[i].exc # "ok" /\ \A j \in 1..(i - 1) : made[j].exc = "ok"].exc,
          records |-> <<>>]
    ELSE [exc |-> "ok", records |-> [i \in 1..Len(made) |-> made[i].value]]

\* the lines that are neither empty nor filler lines
record_lines(lines) == SelectSeq(lines, LAMBDA line : Len(line) > 0 /\ line # FillerLine)

lines_to_records(lines) ==
    records_or_exception(
        [i \in 1..Len(lines) |->
            line_to_record(lines[i], get_record_type_from_record_type_code(lines[i][1]))])

convert_file_string_to_records_list(file_str, line_break) ==
    lines_to_records(record_lines(Split(file_str, line_break)))

record_type_code(record) == get_field_value(record, "record_type_code")

\* the positions of the records whose type code is among the codes
Positions(records_list, codes) ==
    SelectSeq([i \in 1..Len(records_list) |-> i],
              LAMBDA i : StrToInt(record_type_code(records_list[i])) \in codes)

\* the entries start at the records that are no addenda; addendas before the
\* first entry are dropped, and a list without entry gives one transaction
\* without entry
entry_list(records_list, starts) ==
    IF Len(starts) = 0 THEN <<ACHTransactionEntry(None, records_list)>>
    ELSE [k \in 1..Len(starts) |->
             ACHTransactionEntry(
                 Some(records_list[starts[k]]),
                 SubSeq(records_list, starts[k] + 1,
                        IF k = Len(starts) THEN Len(records_list) ELSE starts[k + 1] - 1))]

_convert_batch_transaction_record_types_to_ach_transaction_entry_list(records_list) ==
    entry_list(records_list,
               Positions(records_list, (0..9) \ {ADDENDA_RECORD_TYPE_CODE}))

\* the batch closed by the control at position c: its header is the last
\* header before c, its records those after that header that are neither
\* header nor control
batch_at(records_list, c, h, recalc_batch_control) ==
    [ACHBatch(records_list[h],
              _convert_batch_transaction_record_types_to_ach_transaction_entry_list(
                  SelectSeq(SubSeq(records_list, h + 1, c - 1),
                            LAMBDA r : StrToInt(record_type_code(r))
                                         # BATCH_CONTROL_RECORD_TYPE_CODE)))
        EXCEPT !.batch_control_record =
                  IF recalc_batch_control THEN None ELSE Some(records_list[c])]

\* a record before the first batch header has no list to go to: KeyError
_convert_sub_records_list_to_ach_batch_list(records_list, recalc_batch_control) ==
    IF Len(records_list) > 0
       /\ StrToInt(record_type_code(records_list[1])) # BATCH_HEADER_RECORD_TYPE_CODE
    THEN [exc |-> "KeyError", batches |-> <<>>]
    ELSE [exc |-> "ok",
          batches |->
            [k \in 1..Len(Positions(records_list, {BATCH_CONTROL_RECORD_TYPE_CODE})) |->
                batch_at(records_list,
                         Positions(records_list, {BATCH_CONTROL_RECORD_TYPE_CODE})[k],
                         CHOOSE h \in 1..Len(records_list) :
                            /\ h < Positions(records_list, {BATCH_CONTROL_RECORD_TYPE_CODE})[k]
                            /\ StrToInt(record_type_code(records_list[h]))
                                  = BATCH_HEADER_RECORD_TYPE_CODE
                            /\ \A g \in (h + 1)..
                                  (Positions(records_list, {BATCH_CONTROL_RECORD_TYPE_CODE})[k] - 1) :
                                  StrToInt(record_type_code(records_list[g]))
                                    # BATCH_HEADER_RECORD_TYPE_CODE,
                         recalc_batch_control)]]

\* the parsed file: its header, batches and (unless recalc_control_records)
\* the file control set through the setter
convert_records_list_to_ach_file_contents(records_list, recalc_control_records) ==
    IF Len(records_list) = 0
    THEN [exc |-> "IndexError", file_header_record |-> <<>>, batches |-> <<>>,
          file_control_record |-> None]
    ELSE [exc |-> _convert_sub_records_list_to_ach_batch_list(
                      SubSeq(records_list, 2, Len(records_list) - 1),
                      recalc_control_records).exc,
          file_header_record |-> records_list[1],
          batches |-> _convert_sub_records_list_to_ach_batch_list(
                          SubSeq(records_list, 2, Len(records_list) - 1),
                          recalc_control_records).batches,
          file_control_record |->
              IF recalc_control_records THEN None ELSE Some(records_list[Len(records_list)])]

\* ACHFileContentsParser(ach_file_str).process_ach_file_contents()
process_ach_file_contents(parsed) ==
    IF parsed.exc # "ok"
    THEN [exc |-> parsed.exc, file_header_record |-> <<>>, batches |-> <<>>,
          file_control_record |-> None]
    ELSE convert_records_list_to_ach_file_contents(parsed.records, FALSE)

(***************************************************************************)
(* Inputs of the operations                                                 *)
(***************************************************************************)
\* cls(**kwargs) for arguments the class accepts
Make(cls, kwargs) == Record(cls, RecordType(cls, kwargs))

FileHeaderKwargs ==
    ("destination_routing" :> <<"0", "1", "2", "3", "4", "5", "6", "7", "8">>)
    @@ ("company_identification" :> <<"1", "0", "2", "3", "4", "5", "6", "7", "8", "9">>)
    @@ ("destination_name" :> <<"A", "B">>)
    @@ ("origin_name" :> <<"C", "D">>)
    @@ ("file_creation_date" :> <<"1", "4", "0", "9", "0", "2">>)
    @@ ("file_creation_time" :> <<"0", "1", "2", "3">>)

BatchHeaderKwargs ==
    ("company_name" :> <<"A", "B">>)
    @@ ("company_identification" :> <<"1", "2", "3", "4", "5", "6", "7", "8", "9", "0">>)
    @@ ("company_entry_description" :> <<"P", "A", "Y">>)
    @@ ("odfi_identification" :> <<"1", "0", "2", "3", "4", "5", "6", "7">>)
    @@ ("batch_number" :> <<"1">>)
    @@ ("effective_entry_date" :> <<"1", "4", "0", "9", "0", "3">>)

OtherBatchHeaderKwargs ==
    ("company_name" :> <<"A", "B">>)
    @@ ("company_identification" :> <<"9", "1", "2">>)
    @@ ("company_entry_description" :> <<"P", "A", "Y">>)
    @@ ("odfi_identification" :> <<"1", "0", "2", "3", "4", "5", "6", "7">>)
    @@ ("batch_number" :> <<"2">>)
    @@ ("effective_entry_date" :> <<"1", "4", "0", "9", "0", "3">>)
    @@ ("service_class_code" :> <<"2", "2", "0">>)

CreditEntryKwargs ==
    ("transaction_code" :> <<"2", "2">>)
    @@ ("rdfi_routing" :> <<"1", "2", "3", "4", "5", "6", "7", "8", "9">>)
    @@ ("rdfi_account_number" :> <<"6", "5">>)
    @@ ("amount" :> <<"3", "0", "0">>)
    @@ ("individual_name" :> <<"A", "B">>)
    @@ ("addenda_record_indicator" :> <<"0">>)
    @@ ("trace_odfi_identifier" :> <<"1", "0", "2", "3", "4", "5", "6", "7">>)
    @@ ("trace_sequence_number" :> <<"1">>)

DebitEntryKwargs ==
    ("transaction_code" :> <<"2", "7">>)
    @@ ("rdfi_routing" :> <<"0", "2", "3", "4", "5", "6", "7", "8", "0">>)
    @@ ("rdfi_account_number" :> <<"4", "5">>)
    @@ ("amount" :> <<"1", "5", "0", "0", "0">>)
    @@ ("individual_name" :> <<"C", "D">>)
    @@ ("addenda_record_indicator" :> <<"0">>)
    @@ ("trace_odfi_identifier" :> <<"1", "0", "2", "3", "4", "5", "6", "7">>)
    @@ ("trace_sequence_number" :> <<"2">>)

\* the largest hash contribution and the largest amount of an entry
LargeEntryKwargs ==
    ("transaction_code" :> <<"2", "7">>)
    @@ ("rdfi_routing" :> Rep("9", 9))
    @@ ("rdfi_account_number" :> <<"7", "5">>)
    @@ ("amount" :> Rep("9", 10))
    @@ ("individual_name" :> <<"C", "D">>)
    @@ ("addenda_record_indicator" :> <<"0">>)
    @@ ("trace_odfi_identifier" :> <<"1", "0", "2", "3", "4", "5", "6", "7">>)
    @@ ("trace_sequence_number" :> <<"3">>)

AddendaKwargs ==
    ("payment_related_information" :> <<"M", "O", "M", "O">>)
    @@ ("entry_detail_sequence_number" :> <<"1">>)
    @@ ("addenda_sequence_number" :> <<"1">>)

\* a file control whose totals match no tree of the model
AlteredFileControlKwargs ==
    ("batch_count" :> <<"7">>)
    @@ ("block_count" :> <<"3">>)
    @@ ("entry_and_addenda_count" :> <<"2", "1">>)
    @@ ("entry_hash" :> <<"7", "7">>)
    @@ ("total_debit_amount" :> <<"5">>)
    @@ ("total_credit_amount" :> <<"6">>)

\* a batch control whose totals match no batch of the model
AlteredBatchControlKwargs ==
    ("entry_and_addenda_count" :> <<"9">>)
    @@ ("entry_hash" :> <<"8", "8">>)
    @@ ("total_debit_amount" :> <<"4">>)
    @@ ("total_credit_amount" :> <<"3">>)
    @@ ("company_identification" :> <<"1", "2", "3", "4", "5", "6", "7", "8", "9", "0">>)
    @@ ("odfi_identification" :> <<"1", "0", "2", "3", "4", "5", "6", "7">>)
    @@ ("batch_number" :> <<"1">>)

FileHeaders == {Make("FileHeader", FileHeaderKwargs),
                Make("FileHeader", FileHeaderKwargs @@ ("blocking_factor" :> <<"2">>))}

BatchHeaders == {Make("BatchHeader", BatchHeaderKwargs),
                 Make("BatchHeader", OtherBatchHeaderKwargs)}

Entries == {Make("EntryDetail", CreditEntryKwargs), Make("EntryDetail", DebitEntryKwargs)}

Addendas == {Make("Addenda", AddendaKwargs)}

SuppliedFileControls == {Make("FileControl", AlteredFileControlKwargs)}

SuppliedBatchControls == {Make("BatchControl", AlteredBatchControlKwargs)}

\* the indexes callers pass to the remove operations
Indexes == {-1, 0, 1, 2}

(***************************************************************************)
(* State                                                                    *)
(***************************************************************************)
VARIABLES
    file_header_record,     \* ACHFileContents._file_header_record
    batches,                \* ACHFileContents.batches
    file_control_record,    \* ACHFileContents._file_control_record, None or Some(record)
    recalc_file_control,    \* ACHFileContents._recalc_file_control
    hist,                   \* history of the control records, for the properties
    input,                  \* the argument of the pending call
    ret,                    \* the outcome of the last call
    ops                     \* the number of calls made

vars == <<file_header_record, batches, file_control_record, recalc_file_control,
          hist, input, ret, ops>>

\* the number of calls in a behaviour
MaxOps == 5

\* history of one control record: where the cached record comes from, the
\* record supplied through the setter while no mutation of the container
\* followed, and whether the container was mutated after the record was
\* last read or supplied
NoHistory == [origin |-> "none", trusted |-> None, mutated |-> FALSE, touched |-> FALSE]

HRead(h, recomputed) ==
    [h EXCEPT !.origin = IF recomputed THEN "computed" ELSE @,
              !.mutated = FALSE, !.touched = FALSE]

HSupply(record) ==
    [origin |-> "supplied", trusted |-> Some(record), mutated |-> FALSE, touched |-> FALSE]

\* a child was added to or removed from the container, or its header replaced
HMutate(h, cached) == [h EXCEPT !.trusted = None, !.mutated = (cached # None)]

\* a transaction or an addenda below the container was added or removed
\* while a control record was cached
HTouch(h, cached) == [h EXCEPT !.touched = (cached # None)]

BatchRecomputes(batch) == ~(batch.batch_control_record # None /\ ~batch.recalc_batch_control)

FileRecomputes == ~(file_control_record # None /\ ~recalc_file_control)

Returned(op, exc, value) ==
    [op |-> op, exc |-> exc, value |-> value, index |-> 0, mutated |-> FALSE,
     touched |-> FALSE, recomputed |-> FALSE, cached |-> None]

\* the outcome of cls(**kwargs): the record, or the errors of its fields
made_record(cls, made) ==
    [Returned("RecordType", made.exc, constructed(cls, made).value)
        EXCEPT !.cached = [failed_keys |-> made.failed_keys,
                           exceptions |-> made.exceptions,
                           invalid_kwargs |-> made.invalid_kwargs]]

Init ==
    /\ file_header_record \in FileHeaders
    /\ batches = <<>>
    /\ file_control_record = None
    /\ recalc_file_control = FALSE
    /\ hist = [file |-> NoHistory, batches |-> <<>>]
    /\ input = <<>>
    /\ ret = Returned("ACHFileContents", "ok", <<>>)
    /\ ops = 0

(***************************************************************************)
(* Operations of ACHFileContents                                            *)
(***************************************************************************)
add_batch_keeps_cache ==
    \E header \in BatchHeaders :
        /\ ops < MaxOps
        /\ batches' = Append(batches, ACHBatch(header, <<>>))
        /\ hist' = [file |-> HMutate(hist.file, file_control_record),
                    batches |-> Append(hist.batches, NoHistory)]
        /\ ret' = Returned("add_batch", "ok", <<>>)
        /\ ops' = ops + 1
        /\ UNCHANGED <<file_header_record, file_control_record, recalc_file_control, input>>

\* ACHFileContents.add_batch(ACHBatch(header))
add_batch ==
    \E header \in BatchHeaders :
        /\ ops < MaxOps
        /\ batches' = Append(batches, ACHBatch(header, <<>>))
        /\ recalc_file_control' = IF file_control_record # None THEN TRUE
                                  ELSE recalc_file_control
        /\ hist' = [file |-> HMutate(hist.file, file_control_record),
                    batches |-> Append(hist.batches, NoHistory)]
        /\ ret' = Returned("add_batch", "ok", <<>>)
        /\ ops' = ops + 1
        /\ UNCHANGED <<file_header_record, file_control_record, input>>

\* the stale mark is set before the batch is looked up
remove_batch_by_index_marking_first ==
    \E index \in Indexes :
        /\ ops < MaxOps
        /\ ops' = ops + 1
        /\ recalc_file_control' = IF file_control_record # None THEN TRUE
                                  ELSE recalc_file_control
        /\ LET pos == PyIndex(Len(batches), index)
           IN IF pos = 0
              THEN /\ ret' = Returned("remove_batch_by_index", "IndexError", <<>>)
                   /\ UNCHANGED <<batches, hist>>
              ELSE /\ batches' = RemoveAt(batches, pos)
                   /\ hist' = [file |-> HMutate(hist.file, file_control_record),
                               batches |-> RemoveAt(hist.batches, pos)]
                   /\ ret' = Returned("remove_batch_by_index", "ok", batches[pos])
        /\ UNCHANGED <<file_header_record, file_control_record, input>>

\* ACHFileContents.remove_batch_by_index(index)
remove_batch_by_index ==
    \E index \in Indexes :
        /\ ops < MaxOps
        /\ ops' = ops + 1
        /\ LET pos == PyIndex(Len(batches), index)
           IN IF pos = 0
              THEN /\ ret' = Returned("remove_batch_by_index", "IndexError", <<>>)
                   /\ UNCHANGED <<batches, recalc_file_control, hist>>
              ELSE /\ batches' = RemoveAt(batches, pos)
                   /\ recalc_file_control' = IF file_control_record # None THEN TRUE
                                             ELSE recalc_file_control
                   /\ hist' = [file |-> HMutate(hist.file, file_control_record),
                               batches |-> RemoveAt(hist.batches, pos)]
                   /\ ret' = Returned("remove_batch_by_index", "ok", batches[pos])
        /\ UNCHANGED <<file_header_record, file_control_record, input>>

\* the file_header_record setter: its first statement assigns the same
\* property again, so every call re-enters the setter until the
\* interpreter's recursion limit raises RecursionError; nothing is stored
set_file_header_record ==
    \E header \in FileHeaders :
        /\ ops < MaxOps
        /\ ops' = ops + 1
        /\ ret' = [Returned("set_file_header_record", "RecursionError", <<>>)
                      EXCEPT !.value = header]
        /\ UNCHANGED <<file_header_record, batches, file_control_record,
                       recalc_file_control, hist, input>>

\* the file_control_record getter
read_file_control_record ==
    /\ ops < MaxOps
    /\ ops' = ops + 1
    /\ file_control_record' =
          Some(file_control_record_get(batches, file_control_record, recalc_file_control))
    /\ ret' = [Returned("file_control_record", "ok", file_control_record'[1])
                  EXCEPT !.mutated = hist.file.mutated, !.touched = hist.file.touched,
                         !.recomputed = FileRecomputes, !.cached = file_control_record]
    /\ batches' = batches_after_file_read(batches, file_control_record, recalc_file_control)
    /\ hist' = [file |-> HRead(hist.file, FileRecomputes),
                batches |-> IF FileRecomputes
                            THEN [i \in 1..Len(batches) |->
                                     HRead(hist.batches[i], BatchRecomputes(batches[i]))]
                            ELSE hist.batches]
    /\ UNCHANGED <<file_header_record, recalc_file_control, input>>

\* the file_control_record setter
set_file_control_record ==
    \E record \in SuppliedFileControls :
        /\ ops < MaxOps
        /\ ops' = ops + 1
        /\ file_control_record' = Some(record)
        /\ hist' = [hist EXCEPT !.file = HSupply(record)]
        /\ ret' = Returned("set_file_control_record", "ok", <<>>)
        /\ UNCHANGED <<file_header_record, batches, recalc_file_control, input>>

\* ACHFileContents.render_file_contents()
render ==
    /\ ops < MaxOps
    /\ ops' = ops + 1
    /\ ret' = [Returned("render_file_contents", "ok",
                        render_file_contents(file_header_record, batches, file_control_record,
                                             recalc_file_control, <<"\n">>, <<"\n">>))
                  EXCEPT !.mutated = hist.file.mutated, !.touched = hist.file.touched,
                         !.recomputed = FileRecomputes, !.cached = file_control_record]
    /\ batches' = [i \in 1..Len(batches) |-> batch_after_read(batches[i])]
    /\ file_control_record' =
          Some(file_control_record_get(batches, file_control_record, recalc_file_control))
    /\ hist' = [file |-> HRead(hist.file, FileRecomputes),
                batches |-> [i \in 1..Len(batches) |->
                                HRead(hist.batches[i], BatchRecomputes(batches[i]))]]
    /\ UNCHANGED <<file_header_record, recalc_file_control, input>>

(***************************************************************************)
(* Operations of ACHBatch and ACHTransactionEntry, on batches[b]            *)
(***************************************************************************)
MarkBatch(batch) ==
    [batch EXCEPT !.recalc_batch_control =
        IF batch.batch_control_record # None THEN TRUE ELSE @]

\* ACHBatch.add_transaction(ACHTransactionEntry(entry))
add_transaction ==
    \E b \in 1..Len(batches), entry \in Entries :
        /\ ops < MaxOps
        /\ ops' = ops + 1
        /\ batches' = [batches EXCEPT ![b] =
              MarkBatch([@ EXCEPT !.transactions =
                            Append(@, ACHTransactionEntry(Some(entry), <<>>))])]
        /\ hist' = [file |-> HTouch(hist.file, file_control_record),
                    batches |-> [hist.batches EXCEPT ![b] =
                        HTouch(HMutate(@, batches[b].batch_control_record),
                               batches[b].batch_control_record)]]
        /\ ret' = [Returned("add_transaction", "ok", <<>>) EXCEPT !.index = b]
        /\ UNCHANGED <<file_header_record, file_control_record, recalc_file_control, input>>

\* ACHBatch.remove_transaction_by_index(index)
remove_transaction_by_index ==
    \E b \in 1..Len(batches), index \in Indexes :
        /\ ops < MaxOps
        /\ ops' = ops + 1
        /\ LET pos == PyIndex(Len(batches[b].transactions), index)
           IN IF pos = 0
              THEN /\ ret' = [Returned("remove_transaction_by_index", "IndexError", <<>>)
                                 EXCEPT !.index = b]
                   /\ UNCHANGED <<batches, hist>>
              ELSE /\ batches' = [batches EXCEPT ![b] =
                          MarkBatch([@ EXCEPT !.transactions = RemoveAt(@, pos)])]
                   /\ hist' = [file |-> HTouch(hist.file, file_control_record),
                               batches |-> [hist.batches EXCEPT ![b] =
                                   HTouch(HMutate(@, batches[b].batch_control_record),
                                          batches[b].batch_control_record)]]
                   /\ ret' = [Returned("remove_transaction_by_index", "ok",
                                       batches[b].transactions[pos]) EXCEPT !.index = b]
        /\ UNCHANGED <<file_header_record, file_control_record, recalc_file_control, input>>

\* the batch_header_record setter
set_batch_header_record ==
    \E b \in 1..Len(batches), header \in BatchHeaders :
        /\ ops < MaxOps
        /\ ops' = ops + 1
        /\ batches' = [batches EXCEPT ![b] = MarkBatch([@ EXCEPT !.batch_header_record = header])]
        /\ hist' = [hist EXCEPT !.batches[b] = HMutate(@, batches[b].batch_control_record)]
        /\ ret' = [Returned("set_batch_header_record", "ok", <<>>) EXCEPT !.index = b]
        /\ UNCHANGED <<file_header_record, file_control_record, recalc_file_control, input>>

\* the batch_control_record getter
read_batch_control_record ==
    \E b \in 1..Len(batches) :
        /\ ops < MaxOps
        /\ ops' = ops + 1
        /\ batches' = [batches EXCEPT ![b] = batch_after_read(@)]
        /\ ret' = [Returned("batch_control_record", "ok", batches'[b].batch_control_record[1])
                      EXCEPT !.index = b, !.mutated = hist.batches[b].mutated,
                             !.touched = hist.batches[b].touched,
                             !.recomputed = BatchRecomputes(batches[b]),
                             !.cached = batches[b].batch_control_record]
        /\ hist' = [hist EXCEPT !.batches[b] = HRead(@, BatchRecomputes(batches[b]))]
        /\ UNCHANGED <<file_header_record, file_control_record, recalc_file_control, input>>

\* the batch_control_record setter
set_batch_control_record ==
    \E b \in 1..Len(batches), record \in SuppliedBatchControls :
        /\ ops < MaxOps
        /\ ops' = ops + 1
        /\ batches' = [batches EXCEPT ![b].batch_control_record = Some(record)]
        /\ hist' = [hist EXCEPT !.batches[b] = HSupply(record)]
        /\ ret' = [Returned("set_batch_control_record", "ok", <<>>) EXCEPT !.index = b]
        /\ UNCHANGED <<file_header_record, file_control_record, recalc_file_control, input>>

\* ACHTransactionEntry.add_addenda(addenda) on batches[b].transactions[t]
add_addenda ==
    \E b \in 1..Len(batches), addenda \in Addendas :
        \E t \in 1..Len(batches[b].transactions) :
            /\ ops < MaxOps
            /\ ops' = ops + 1
            /\ batches' = [batches EXCEPT ![b].transactions[t].addendas = Append(@, addenda)]
            /\ hist' = [file |-> HTouch(hist.file, file_control_record),
                        batches |-> [hist.batches EXCEPT ![b] =
                            HTouch(@, batches[b].batch_control_record)]]
            /\ ret' = [Returned("add_addenda", "ok", <<>>) EXCEPT !.index = b]
            /\ UNCHANGED <<file_header_record, file_control_record, recalc_file_control,
                           input>>

\* ACHTransactionEntry.remove_addenda_by_index(index)
remove_addenda_by_index ==
    \E b \in 1..Len(batches), index \in Indexes :
        \E t \in 1..Len(batches[b].transactions) :
            /\ ops < MaxOps
            /\ ops' = ops + 1
            /\ LET pos == PyIndex(Len(batches[b].transactions[t].addendas), index)
               IN IF pos = 0
                  THEN /\ ret' = [Returned("remove_addenda_by_index", "IndexError", <<>>)
                                     EXCEPT !.index = b]
                       /\ UNCHANGED <<batches, hist>>
                  ELSE /\ batches' = [batches EXCEPT ![b].transactions[t].addendas =
                                         RemoveAt(@, pos)]
                       /\ hist' = [file |-> HTouch(hist.file, file_control_record),
                                   batches |-> [hist.batches EXCEPT ![b] =
                                       HTouch(@, batches[b].batch_control_record)]]
                       /\ ret' = [Returned("remove_addenda_by_index", "ok",
                                           batches[b].transactions[t].addendas[pos])
                                     EXCEPT !.index = b]
            /\ UNCHANGED <<file_header_record, file_control_record, recalc_file_control,
                           input>>

Next ==
    \/ add_batch
    \/ remove_batch_by_index
    \/ set_file_header_record
    \/ read_file_control_record
    \/ set_file_control_record
    \/ render
    \/ add_transaction
    \/ remove_transaction_by_index
    \/ set_batch_header_record
    \/ read_batch_control_record
    \/ set_batch_control_record
    \/ add_addenda
    \/ remove_addenda_by_index

Spec == Init /\ [][Next]_vars

(***************************************************************************)
(* The control records of trees as they are first read                      *)
(***************************************************************************)
\* the number of transactions of a large batch
BulkSize == 101

\* the transactions a batch of the trees is made of
TransactionKinds ==
    {ACHTransactionEntry(Some(entry), <<>>) : entry \in Entries}
    \cup {ACHTransactionEntry(Some(Make("EntryDetail", CreditEntryKwargs)), <<addenda>>) :
              addenda \in Addendas}

TransactionLists ==
    {<<>>} \cup {<<t>> : t \in TransactionKinds}
    \cup {<<t, ACHTransactionEntry(Some(Make("EntryDetail", DebitEntryKwargs)), <<>>)>> :
              t \in TransactionKinds}
    \cup {[i \in 1..BulkSize |->
              ACHTransactionEntry(Some(Make("EntryDetail", LargeEntryKwargs)), <<>>)]}

BatchKinds == {ACHBatch(header, txs) : header \in BatchHeaders, txs \in TransactionLists}

Trees == {<<>>} \cup {<<b>> : b \in BatchKinds} \cup {<<b, c>> : b \in BatchKinds, c \in BatchKinds}

\* ACHFileContents(header, batches): nothing is read yet
AggregateInit ==
    /\ file_header_record \in FileHeaders
    /\ batches \in Trees
    /\ file_control_record = None
    /\ recalc_file_control = FALSE
    /\ hist = [file |-> NoHistory, batches |-> [i \in 1..Len(batches) |-> NoHistory]]
    /\ input = <<>>
    /\ ret = Returned("ACHFileContents", "ok", <<>>)
    /\ ops = 0

AggregateNext == read_file_control_record \/ read_batch_control_record

AggregateSpec == AggregateInit /\ [][AggregateNext]_vars

(***************************************************************************)
(* The construction of single records                                       *)
(***************************************************************************)
\* the longest value handed to a field
MaxValueLen == 85

\* values shorter than, as long as and longer than the fields, valid and not
FieldValues ==
    {<<>>, <<"7">>, <<"0", "7">>, <<"A", "B">>, <<"A", "#">>, NOW,
     <<"1", "4", "0", "9", "0", "2">>, <<"1", "4", "1", "3", "0", "2">>,
     <<"1", "2", "3", "4", "5", "6", "7", "8">>,
     Rep("7", 30), Rep("A", MaxValueLen), Rep("7", MaxValueLen)}

BaseKwargs(cls) ==
    CASE cls = "FileHeader" -> FileHeaderKwargs
      [] cls = "BatchHeader" -> BatchHeaderKwargs
      [] cls = "EntryDetail" -> CreditEntryKwargs
      [] cls = "Addenda" -> AddendaKwargs
      [] cls = "BatchControl" -> AlteredBatchControlKwargs
      [] cls = "FileControl" -> AlteredFileControlKwargs

\* cls(**kwargs) calls: the arguments of a valid call with one of them
\* replaced, added or left out, or with an argument the class does not know
RecordInputs ==
    UNION {{[cls |-> cls, kwargs |-> (k :> v) @@ BaseKwargs(cls)] :
               k \in Keys(field_definition_dict(cls)) \cup {"unknown"}, v \in FieldValues}
           \cup {[cls |-> cls,
                  kwargs |-> (k :> <<"A", "#">>) @@ (j :> <<"A", "#">>) @@ BaseKwargs(cls)] :
                     k \in Keys(field_definition_dict(cls)) \cup {"unknown"},
                     j \in Keys(field_definition_dict(cls)) \cup {"other"}}
           \cup {[cls |-> cls,
                  kwargs |-> [j \in (DOMAIN ((k :> <<"x">>) @@ BaseKwargs(cls))) \ {l} |->
                                 ((k :> <<"x">>) @@ BaseKwargs(cls))[j]]] :
                     k \in Keys(field_definition_dict(cls)) \cup {"unknown"},
                     l \in DOMAIN BaseKwargs(cls)}
           \cup {[cls |-> cls,
                  kwargs |-> [j \in (DOMAIN BaseKwargs(cls)) \ {k} |-> BaseKwargs(cls)[j]]] :
                     k \in DOMAIN BaseKwargs(cls)} :
           cls \in RecordClasses}

RecordInit ==
    /\ input \in RecordInputs
    /\ file_header_record = Make("FileHeader", FileHeaderKwargs)
    /\ batches = <<>>
    /\ file_control_record = None
    /\ recalc_file_control = FALSE
    /\ hist = [file |-> NoHistory, batches |-> <<>>]
    /\ ret = Returned("none", "ok", <<>>)
    /\ ops = 0

\* cls(**kwargs)
construct_record ==
    /\ ops = 0
    /\ ops' = 1
    /\ ret' = made_record(input.cls, RecordType(input.cls, input.kwargs))
    /\ UNCHANGED <<file_header_record, batches, file_control_record, recalc_file_control,
                   hist, input>>

RecordNext == construct_record

RecordSpec == RecordInit /\ [][RecordNext]_vars

(***************************************************************************)
(* Transaction codes: TransactionCode(value) and its classification         *)
(***************************************************************************)
\* the two-digit values of the transaction_code field
TwoDigitCodes == 10..99

CodeInit ==
    /\ input \in [code : TwoDigitCodes]
    /\ file_header_record = Make("FileHeader", FileHeaderKwargs)
    /\ batches = <<>>
    /\ file_control_record = None
    /\ recalc_file_control = FALSE
    /\ hist = [file |-> NoHistory, batches |-> <<>>]
    /\ ret = Returned("none", "ok", <<>>)
    /\ ops = 0

code_made(made) == Returned("TransactionCode", made.exc, SubSeq(<<made>>, 1, IF made.exc = "ok" THEN 1 ELSE 0))

\* TransactionCode(value)
construct_transaction_code ==
    /\ ops = 0
    /\ ops' = 1
    /\ ret' = code_made(TransactionCode(input.code))
    /\ UNCHANGED <<file_header_record, batches, file_control_record, recalc_file_control,
                   hist, input>>

\* the five classification methods of TransactionCode(value)
classify_transaction_code ==
    /\ ops = 1
    /\ ret.op = "TransactionCode" /\ ret.exc = "ok"
    /\ ops' = 2
    /\ ret' = Returned("classification", "ok",
                       [is_credit |-> is_credit(ret.value[1].value),
                        is_debit |-> is_debit(ret.value[1].value),
                        is_prenote |-> is_prenote(ret.value[1].value),
                        is_checking |-> is_checking(ret.value[1].value),
                        is_savings |-> is_savings(ret.value[1].value)])
    /\ UNCHANGED <<file_header_record, batches, file_control_record, recalc_file_control,
                   hist, input>>

CodeNext == construct_transaction_code \/ classify_transaction_code

CodeSpec == CodeInit /\ [][CodeNext]_vars

(***************************************************************************)
(* Fields: Field(field_definition, value) for definitions of every kind     *)
(***************************************************************************)
FieldLengths == {1, 3, 6}

FieldDefaults == {None, Some(<<>>), Some(<<"4", "2">>)}

\* no value, and str(value) of the values given: the empty string, 0, and
\* values shorter and longer than the fields, valid and not
GivenValues ==
    {None} \cup {Some(v) : v \in {<<>>, <<"0">>, <<"7">>, <<"A", "B">>, <<"A", "#">>, <<"#">>,
                                   <<"1", "2", "3", "4", "5", "6", "7">>,
                                   <<"A", "#", "C", "D", "E", "F", "G">>,
                                   <<"1", "4", "0", "9", "0", "2">>,
                                   <<"1", "4", "1", "3", "0", "2">>, NOW}}

FieldInputs ==
    {[fd |-> FieldDefinition("field", ft, length, required, default, auto), value |-> value] :
        ft \in FieldTypes, length \in FieldLengths, required \in BOOLEAN,
        default \in FieldDefaults, auto \in {"None", "True", "False"},
        value \in GivenValues}

FieldInit ==
    /\ input \in FieldInputs
    /\ file_header_record = Make("FileHeader", FileHeaderKwargs)
    /\ batches = <<>>
    /\ file_control_record = None
    /\ recalc_file_control = FALSE
    /\ hist = [file |-> NoHistory, batches |-> <<>>]
    /\ ret = Returned("none", "ok", <<>>)
    /\ ops = 0

field_made(made) == Returned("Field", made.exc, made.value)

\* Field(field_definition, value)
construct_field ==
    /\ ops = 0
    /\ ops' = 1
    /\ ret' = field_made(_create_cleaned_value(input.fd, input.value))
    /\ UNCHANGED <<file_header_record, batches, file_control_record, recalc_file_control,
                   hist, input>>

\* field_definition.get_fixed_width_value(value)
get_fixed_width_value ==
    /\ ops = 0
    /\ input.value # None
    /\ ops' = 1
    /\ ret' = Returned("apply_fixed_length", "ok",
                       apply_fixed_length(input.fd.field_type, input.value[1],
                                          input.fd.length))
    /\ UNCHANGED <<file_header_record, batches, file_control_record, recalc_file_control,
                   hist, input>>

FieldNext == construct_field \/ get_fixed_width_value

FieldSpec == FieldInit /\ [][FieldNext]_vars

(***************************************************************************)
(* The fields of the six schemas, made from a value and made again from     *)
(* the value they hold, as the parser makes them from the slices of a line  *)
(***************************************************************************)
\* the values given: those of the record constructions, a routing number,
\* blanks
SchemaFieldValues ==
    FieldValues \cup {<<"1", "2", "3", "4", "5", "6", "7", "8", "9">>, Rep(" ", 4)}

SchemaFieldInputs ==
    UNION {{[cls |-> cls, fd |-> field_definition_dict(cls)[i], value |-> Some(v)] :
               i \in 1..Len(field_definition_dict(cls)), v \in SchemaFieldValues} :
           cls \in RecordClasses}

SchemaFieldInit ==
    /\ input \in SchemaFieldInputs
    /\ file_header_record = Make("FileHeader", FileHeaderKwargs)
    /\ batches = <<>>
    /\ file_control_record = None
    /\ recalc_file_control = FALSE
    /\ hist = [file |-> NoHistory, batches |-> <<>>]
    /\ ret = Returned("none", "ok", <<>>)
    /\ ops = 0

\* Field(field_definition, value) with a definition of a schema
construct_schema_field ==
    /\ ops = 0
    /\ ops' = 1
    /\ ret' = field_made(_create_cleaned_value(input.fd, input.value))
    /\ UNCHANGED <<file_header_record, batches, file_control_record, recalc_file_control,
                   hist, input>>

\* Field(field_definition, field.value): the value of the field made goes
\* through the same definition; the first value is kept beside the outcome
construct_field_again ==
    /\ ops = 1
    /\ ret.op = "Field" /\ ret.exc = "ok"
    /\ ops' = 2
    /\ ret' = [field_made(_create_cleaned_value(input.fd, Some(ret.value)))
                  EXCEPT !.op = "Field again", !.cached = Some(ret.value)]
    /\ UNCHANGED <<file_header_record, batches, file_control_record, recalc_file_control,
                   hist, input>>

SchemaFieldNext == construct_schema_field \/ construct_field_again

SchemaFieldSpec == SchemaFieldInit /\ [][SchemaFieldNext]_vars

(***************************************************************************)
(* Parsing texts and rendering the parsed file                              *)
(***************************************************************************)
\* the line with the character at position pos replaced
WithChar(line, pos, c) == [line EXCEPT ![pos] = c]

EntryLine(kwargs) == render_record_line(Make("EntryDetail", kwargs))

AddendaLine == render_record_line(Make("Addenda", AddendaKwargs))

\* the entry and addenda lines of a batch: plain ones, and ones with a
\* character outside the alphanumeric pattern in the individual name or
\* in the payment related information
EntryBlocks ==
    {<<EntryLine(CreditEntryKwargs)>>,
     <<EntryLine(DebitEntryKwargs)>>,
     <<EntryLine(CreditEntryKwargs), AddendaLine>>,
     <<EntryLine(CreditEntryKwargs), EntryLine(DebitEntryKwargs)>>,
     <<WithChar(EntryLine(CreditEntryKwargs), 57, "#")>>,
     <<EntryLine(DebitEntryKwargs), WithChar(AddendaLine, 6, "*")>>}

\* a batch in text: header, entries with addendas, control
BatchBlocks ==
    {<<render_record_line(header)>> \o block \o <<render_record_line(control)>> :
        header \in BatchHeaders, block \in EntryBlocks, control \in SuppliedBatchControls}

\* a file in text: the lines end with the line break, and filler lines
\* bring their number to a multiple of ten
FileText(lines) ==
    Concat([i \in 1..(Len(lines) + ((10 - (Len(lines) % 10)) % 10)) |->
               (IF i <= Len(lines) THEN lines[i] ELSE Rep("9", 94)) \o <<"\n">>])

Texts ==
    {FileText(<<render_record_line(header)>> \o body \o <<render_record_line(control)>>) :
        header \in {Make("FileHeader", FileHeaderKwargs)},
        body \in BatchBlocks \cup {b \o c : b \in BatchBlocks, c \in BatchBlocks},
        control \in SuppliedFileControls}

\* ACHFileContentsParser(text): nothing is parsed yet
ParseInit ==
    /\ input \in Texts
    /\ file_header_record = <<>>
    /\ batches = <<>>
    /\ file_control_record = None
    /\ recalc_file_control = FALSE
    /\ hist = [file |-> NoHistory, batches |-> <<>>]
    /\ ret = Returned("ACHFileContentsParser", "ok", <<>>)
    /\ ops = 0

\* the parsed file replaces the tree
parsed_file(parsed) ==
    /\ ret' = Returned("process_ach_file_contents", parsed.exc, <<>>)
    /\ IF parsed.exc # "ok"
       THEN UNCHANGED <<file_header_record, batches, file_control_record,
                        recalc_file_control, hist>>
       ELSE /\ file_header_record' = parsed.file_header_record
            /\ batches' = parsed.batches
            /\ file_control_record' = parsed.file_control_record
            /\ recalc_file_control' = FALSE
            /\ hist' = [file |-> HSupply(parsed.file_control_record[1]),
                        batches |-> [i \in 1..Len(parsed.batches) |->
                                        HSupply(parsed.batches[i].batch_control_record[1])]]

\* process_ach_file_contents() of the parser of the text
parse_file ==
    /\ ops < MaxOps
    /\ ops' = ops + 1
    /\ parsed_file(process_ach_file_contents(
                       convert_file_string_to_records_list(input, "\n")))
    /\ UNCHANGED input

\* render_file_contents() of the parsed file
render_parsed == ret.op # "ACHFileContentsParser" /\ file_control_record # None /\ render

ParseNext == parse_file \/ render_parsed

ParseSpec == ParseInit /\ [][ParseNext]_vars

(***************************************************************************)
(* Rendering a tree, parsing the text and rendering the parsed file         *)
(***************************************************************************)
\* the trees rendered: up to two batches, each without transactions or with
\* one or two
SmallTrees == {t \in Trees : \A i \in 1..Len(t) : Len(t[i].transactions) <= 2}

\* ACHFileContents(header, batches): nothing is rendered yet
RoundTripInit ==
    /\ file_header_record = Make("FileHeader", FileHeaderKwargs)
    /\ batches \in SmallTrees
    /\ file_control_record = None
    /\ recalc_file_control = FALSE
    /\ hist = [file |-> NoHistory, batches |-> [i \in 1..Len(batches) |-> NoHistory]]
    /\ input = [rendered |-> batches, text |-> <<>>]
    /\ ret = Returned("ACHFileContents", "ok", <<>>)
    /\ ops = 0

\* render_file_contents() of the tree; the text is kept for the parser
render_tree ==
    /\ ops = 0
    /\ ops' = 1
    /\ ret' = Returned("render_file_contents", "ok",
                       render_file_contents(file_header_record, batches, file_control_record,
                                            recalc_file_control, <<"\n">>, <<"\n">>))
    /\ input' = [input EXCEPT !.text = ret'.value]
    /\ batches' = [i \in 1..Len(batches) |-> batch_after_read(batches[i])]
    /\ file_control_record' =
          Some(file_control_record_get(batches, file_control_record, recalc_file_control))
    /\ hist' = [file |-> HRead(hist.file, FileRecomputes),
                batches |-> [i \in 1..Len(batches) |->
                                HRead(hist.batches[i], BatchRecomputes(batches[i]))]]
    /\ UNCHANGED <<file_header_record, recalc_file_control>>

\* ACHFileContentsParser(text).process_ach_file_contents()
parse_rendered ==
    /\ ops = 1
    /\ ops' = 2
    /\ parsed_file(process_ach_file_contents(
                       convert_file_string_to_records_list(input.text, "\n")))
    /\ UNCHANGED input

\* the batches holding a transaction without entry record
EntrylessBatches(bs) ==
    {i \in 1..Len(bs) : \E j \in 1..Len(bs[i].transactions) : bs[i].transactions[j].entry = None}

\* get_rendered_line_list() stops in the first batch that has a transaction
\* without entry: None has no render_record_line
render_stopped(first) ==
    /\ ops' = ops + 1
    /\ ret' = Returned("render_file_contents", "AttributeError", <<>>)
    /\ batches' = [i \in 1..Len(batches) |->
                      IF i < first THEN batch_after_read(batches[i]) ELSE batches[i]]
    /\ hist' = [hist EXCEPT !.batches =
                    [i \in 1..Len(batches) |->
                        IF i < first THEN HRead(hist.batches[i], BatchRecomputes(batches[i]))
                        ELSE hist.batches[i]]]
    /\ UNCHANGED <<file_header_record, file_control_record, recalc_file_control, input>>

\* render_file_contents() of the parsed file
render_parsed_tree ==
    /\ ops = 2
    /\ ret.op = "process_ach_file_contents" /\ ret.exc = "ok"
    /\ IF EntrylessBatches(batches) = {}
       THEN render
       ELSE render_stopped(CHOOSE i \in EntrylessBatches(batches) :
                              \A k \in EntrylessBatches(batches) : i <= k)

RoundTripNext == render_tree \/ parse_rendered \/ render_parsed_tree

RoundTripSpec == RoundTripInit /\ [][RoundTripNext]_vars

(***************************************************************************)
(* Reassembly: convert_records_list_to_ach_file_contents(records_list)      *)
(***************************************************************************)
OtherAddenda ==
    Make("Addenda", ("payment_related_information" :> <<"D", "U", "E">>) @@ AddendaKwargs)

OtherBatchControl ==
    Make("BatchControl", ("batch_number" :> <<"2">>) @@ AlteredBatchControlKwargs)

\* the entry and addenda records between a batch header and its control:
\* none, entries with and without addendas, and an addenda before any entry
RecordBlocks ==
    {<<>>,
     <<Make("EntryDetail", CreditEntryKwargs)>>,
     <<Make("EntryDetail", CreditEntryKwargs), Make("Addenda", AddendaKwargs)>>,
     <<Make("EntryDetail", DebitEntryKwargs), OtherAddenda, Make("Addenda", AddendaKwargs)>>,
     <<Make("EntryDetail", CreditEntryKwargs), Make("EntryDetail", DebitEntryKwargs)>>,
     <<Make("EntryDetail", DebitEntryKwargs), Make("EntryDetail", DebitEntryKwargs)>>,
     <<Make("EntryDetail", CreditEntryKwargs), Make("Addenda", AddendaKwargs),
       Make("EntryDetail", DebitEntryKwargs), OtherAddenda>>,
     <<Make("EntryDetail", DebitEntryKwargs),
       Make("EntryDetail", CreditEntryKwargs), OtherAddenda, OtherAddenda>>,
     <<Make("Addenda", AddendaKwargs), Make("EntryDetail", CreditEntryKwargs)>>}

FirstBatchRecords ==
    {<<Make("BatchHeader", BatchHeaderKwargs)>> \o block
        \o <<Make("BatchControl", AlteredBatchControlKwargs)>> : block \in RecordBlocks}

SecondBatchRecords ==
    {<<Make("BatchHeader", OtherBatchHeaderKwargs)>> \o block \o <<OtherBatchControl>> :
        block \in RecordBlocks}

RecordLists ==
    {<<Make("FileHeader", FileHeaderKwargs)>> \o body
        \o <<Make("FileControl", AlteredFileControlKwargs)>> :
        body \in {<<>>} \cup FirstBatchRecords
                 \cup {b \o c : b \in FirstBatchRecords, c \in SecondBatchRecords}}

ReassembleInit ==
    /\ input \in [records_list : RecordLists, recalc_control_records : {FALSE}]
    /\ file_header_record = <<>>
    /\ batches = <<>>
    /\ file_control_record = None
    /\ recalc_file_control = FALSE
    /\ hist = [file |-> NoHistory, batches |-> <<>>]
    /\ ret = Returned("none", "ok", <<>>)
    /\ ops = 0

\* the file made from the records replaces the tree
records_converted(parsed) ==
    /\ ret' = Returned("convert_records_list_to_ach_file_contents", parsed.exc, <<>>)
    /\ file_header_record' = parsed.file_header_record
    /\ batches' = parsed.batches
    /\ file_control_record' = parsed.file_control_record
    /\ recalc_file_control' = FALSE
    /\ hist' = [file |-> HSupply(parsed.file_control_record[1]),
                batches |-> [i \in 1..Len(parsed.batches) |->
                                HSupply(parsed.batches[i].batch_control_record[1])]]

\* ACHFileContentsParser.convert_records_list_to_ach_file_contents(records_list)
convert_records ==
    /\ ops = 0
    /\ ops' = 1
    /\ records_converted(convert_records_list_to_ach_file_contents(
                             input.records_list, input.recalc_control_records))
    /\ UNCHANGED input

ReassembleNext == convert_records

ReassembleSpec == ReassembleInit /\ [][ReassembleNext]_vars

(***************************************************************************)
(* file_builder.py: ACHFileBuilder                                          *)
(***************************************************************************)
\* file_settings.get('origin_routing', '').lstrip()[:8]
default_odfi_identification(file_settings) ==
    IF "origin_routing" \in DOMAIN file_settings
    THEN Prefix(LStrip(file_settings["origin_routing"]), 8)
    ELSE <<>>

\* ACHFileContents.get_all_transactions
get_all_transactions(bs) == Concat([b \in 1..Len(bs) |-> bs[b].transactions])

\* the keys of update missing from the settings are added to them
_update_batch_settings(batch_settings, odfi, bs) ==
    batch_settings
    @@ ("odfi_identification" :> odfi)
    @@ ("batch_number" :> IntToStr(Len(bs) + 1))

\* An entry dictionary is [kwargs, addendas]: the entry's keyword arguments
\* and the list under its 'addendas' key, None when the key is absent.
raw_addendas(entry_dict) ==
    IF entry_dict.addendas = None THEN <<>> ELSE entry_dict.addendas[1]

\* the entry details after _update_entry_detail_kwargs popped 'addendas'
_update_entry_detail_kwargs_per_batch(entry_dict, odfi, bs) ==
    entry_dict.kwargs
    @@ ("addenda_record_indicator" :> IntToStr(Len(raw_addendas(entry_dict))))
    @@ ("trace_odfi_identifier" :> odfi)
    @@ ("trace_sequence_number" :> IntToStr(Len(bs[Len(bs)].transactions) + 1))

_update_entry_detail_kwargs(entry_dict, odfi, bs) ==
    entry_dict.kwargs
    @@ ("addenda_record_indicator" :> IntToStr(Len(raw_addendas(entry_dict))))
    @@ ("trace_odfi_identifier" :> odfi)
    @@ ("trace_sequence_number" :> IntToStr(Len(get_all_transactions(bs)) + 1))

_update_addenda_record_kwargs(addenda_kwargs, entry_detail_sequence_num, addenda_sequence_num) ==
    addenda_kwargs
    @@ ("entry_detail_sequence_number" :> entry_detail_sequence_num)
    @@ ("addenda_sequence_number" :> IntToStr(addenda_sequence_num))

\* the addenda keyword arguments of the entry, each completed in place
addenda_list_kwargs(entry_dict, entry_details) ==
    [i \in 1..Len(raw_addendas(entry_dict)) |->
        _update_addenda_record_kwargs(raw_addendas(entry_dict)[i],
                                      entry_details["trace_sequence_number"], i)]

\* the transaction of an entry record and the addenda records made in
\* order: the first constructor that raises ends the conversion
converted(entry_made, addendas_made) ==
    IF entry_made.exc # "ok" THEN [exc |-> entry_made.exc, value |-> <<>>]
    ELSE IF \E i \in 1..Len(addendas_made) : addendas_made[i].exc # "ok"
         THEN [exc |-> addendas_made[CHOOSE i \in 1..Len(addendas_made) :
                           /\ addendas_made[i].exc # "ok"
                           /\ \A j \in 1..(i - 1) : addendas_made[j].exc = "ok"].exc,
               value |-> <<>>]
    ELSE [exc |-> "ok",
          value |-> ACHTransactionEntry(
                        Some(Record("EntryDetail", entry_made)),
                        [i \in 1..Len(addendas_made) |-> Record("Addenda", addendas_made[i])])]

made_addendas(list_kwargs) ==
    [i \in 1..Len(list_kwargs) |-> RecordType("Addenda", list_kwargs[i])]

converted_details(entry_dict, entry_details) ==
    converted(RecordType("EntryDetail", entry_details),
              made_addendas(addenda_list_kwargs(entry_dict, entry_details)))

_convert_entry_detail_kwargs_to_ach_transaction_entry(entry_dict, odfi, bs) ==
    converted_details(entry_dict, _update_entry_detail_kwargs(entry_dict, odfi, bs))

\* batches[batch_index].add_transaction(ach_tx_entry)
transaction_added(bs, batch_index, ach_tx_entry) ==
    IF ach_tx_entry.exc # "ok" THEN [exc |-> ach_tx_entry.exc, batches |-> bs]
    ELSE IF PyIndex(Len(bs), batch_index) = 0 THEN [exc |-> "IndexError", batches |-> bs]
    ELSE [exc |-> "ok",
          batches |-> [bs EXCEPT ![PyIndex(Len(bs), batch_index)] =
                         MarkBatch([@ EXCEPT !.transactions =
                                       Append(@, ach_tx_entry.value)])]]

add_entry_without_batch_check(bs, odfi, batch_index, entry_dict) ==
    transaction_added(bs, batch_index,
        _convert_entry_detail_kwargs_to_ach_transaction_entry(entry_dict, odfi, bs))

\* ACHFileBuilder.add_entry_and_addenda: the outcome and the batches after
add_entry_and_addenda(bs, odfi, batch_index, entry_dict) ==
    IF Len(bs) = 0 THEN [exc |-> "NoBatchForTransactionError", batches |-> bs]
    ELSE transaction_added(bs, batch_index,
             _convert_entry_detail_kwargs_to_ach_transaction_entry(entry_dict, odfi, bs))

\* the number of addenda dictionaries completed when the conversion ended
completed_addendas(entry_made, addendas_made) ==
    IF entry_made.exc # "ok" THEN 0
    ELSE IF \A i \in 1..Len(addendas_made) : addendas_made[i].exc = "ok"
         THEN Len(addendas_made)
    ELSE CHOOSE i \in 1..Len(addendas_made) :
             /\ addendas_made[i].exc # "ok"
             /\ \A j \in 1..(i - 1) : addendas_made[j].exc = "ok"

\* the caller's dictionary once the first n of its addenda dictionaries
\* were completed in place
entry_dict_completed(entry_dict, list_kwargs, n) ==
    IF entry_dict.addendas = None THEN entry_dict
    ELSE [entry_dict EXCEPT !.addendas =
             Some([i \in 1..Len(list_kwargs) |->
                      IF i <= n THEN list_kwargs[i] ELSE raw_addendas(entry_dict)[i]])]

entry_dict_with(entry_dict, entry_details) ==
    entry_dict_completed(
        entry_dict, addenda_list_kwargs(entry_dict, entry_details),
        completed_addendas(RecordType("EntryDetail", entry_details),
                           made_addendas(addenda_list_kwargs(entry_dict, entry_details))))

\* the caller's entry dictionary after add_entry_and_addenda(**entry_dict)
entry_dict_after(bs, odfi, entry_dict) ==
    IF Len(bs) = 0 THEN entry_dict
    ELSE entry_dict_with(entry_dict, _update_entry_detail_kwargs(entry_dict, odfi, bs))

RECURSIVE add_entries_from(_, _, _, _, _, _, _)
\* one turn of the loop over entry_dict_list, given the outcome of its call
entry_handled_stops_at_failure(outcome, bs, odfi, entry_dict_list, k, batch_index, raise_exc, failed) ==
    IF outcome.exc = "ok"
    THEN add_entries_from(outcome.batches, odfi, entry_dict_list, k + 1, batch_index,
                          raise_exc, failed)
    ELSE IF raise_exc THEN [exc |-> outcome.exc, batches |-> bs, value |-> <<>>]
    ELSE [exc |-> "ok", batches |-> bs,
          value |-> Append(failed, [entry |-> entry_dict_after(bs, odfi, entry_dict_list[k]),
                                    index |-> k, exc |-> outcome.exc])]

entry_handled(outcome, bs, odfi, entry_dict_list, k, batch_index, raise_exc, failed) ==
    IF outcome.exc = "ok"
    THEN add_entries_from(outcome.batches, odfi, entry_dict_list, k + 1, batch_index,
                          raise_exc, failed)
    ELSE IF raise_exc THEN [exc |-> outcome.exc, batches |-> bs, value |-> <<>>]
    ELSE add_entries_from(bs, odfi, entry_dict_list, k + 1, batch_index, raise_exc,
                          Append(failed, [entry |-> entry_dict_after(bs, odfi, entry_dict_list[k]),
                                          index |-> k,
                                          exc |-> outcome.exc]))

\* the loop of add_entries_and_addendas from the k-th entry on
add_entries_from(bs, odfi, entry_dict_list, k, batch_index, raise_exc, failed) ==
    IF k > Len(entry_dict_list) THEN [exc |-> "ok", batches |-> bs, value |-> failed]
    ELSE entry_handled(add_entry_and_addenda(bs, odfi, batch_index, entry_dict_list[k]),
                       bs, odfi, entry_dict_list, k, batch_index, raise_exc, failed)

\* ACHFileBuilder.add_entries_and_addendas: the outcome, the batches after
\* and the failed entries returned, each with its position and its cause
add_entries_and_addendas(bs, odfi, entry_dict_list, batch_index, raise_exc) ==
    add_entries_from(bs, odfi, entry_dict_list, 1, batch_index, raise_exc, <<>>)

(***************************************************************************)
(* The builder's inputs                                                     *)
(***************************************************************************)
BatchSettings ==
    ("company_name" :> <<"A", "B">>)
    @@ ("company_identification" :> <<"1", "2", "3", "4", "5", "6", "7", "8", "9", "0">>)
    @@ ("company_entry_description" :> <<"P", "A", "Y">>)
    @@ ("effective_entry_date" :> <<"1", "4", "0", "9", "0", "3">>)

EntryDetails(transaction_code, amount) ==
    ("transaction_code" :> transaction_code)
    @@ ("rdfi_routing" :> <<"1", "2", "3", "4", "5", "6", "7", "8", "9">>)
    @@ ("rdfi_account_number" :> <<"6", "5">>)
    @@ ("amount" :> amount)
    @@ ("individual_name" :> <<"A", "B">>)

\* entries that pass their sequence number themselves, as
\* trace_sequence_number and inside a trace_number, each with addendas
NumberedEntryDicts == {
    [kwargs |-> EntryDetails(<<"2", "7">>, <<"8", "1">>)
                @@ ("trace_sequence_number" :> <<"7", "7">>),
     addendas |-> Some(<< ("payment_related_information" :> <<"H", "i">>) >>)],
    [kwargs |-> EntryDetails(<<"2", "2">>, <<"8", "2">>)
                @@ ("trace_number" :> <<"1", "0", "2", "3", "4", "5", "6", "7",
                                        "0", "0", "0", "0", "0", "9", "9">>),
     addendas |-> Some(<< ("payment_related_information" :> <<"H", "i">>),
                          ("payment_related_information" :> <<"M", "O">>) >>)] }

\* a credit without addendas, a debit with two addendas, an entry whose
\* amount is no integer, an entry whose second addenda names no known
\* field, and an entry without an amount
EntryDicts == NumberedEntryDicts \cup {
    [kwargs |-> EntryDetails(<<"2", "2">>, <<"3", "0", "0">>), addendas |-> None],
    [kwargs |-> EntryDetails(<<"2", "7">>, <<"7", "0", "0", "0">>),
     addendas |-> Some(<< ("payment_related_information" :> <<"H", "i">>),
                          ("payment_related_information" :> <<"M", "O">>) >>)],
    [kwargs |-> EntryDetails(<<"2", "2">>, <<"1", "x">>), addendas |-> None],
    [kwargs |-> EntryDetails(<<"2", "2">>, <<"5", "5">>),
     addendas |-> Some(<< ("payment_related_information" :> <<"H", "i">>),
                          ("memo" :> <<"H", "i">>) >>)],
    [kwargs |-> [k \in {"transaction_code", "rdfi_routing", "rdfi_account_number",
                        "individual_name"} |->
                    EntryDetails(<<"3", "2">>, <<"9">>)[k]],
     addendas |-> None] }

\* the length of the longest list of entries submitted at once
MaxEntries == 3

RECURSIVE ListsOf(_, _)
ListsOf(set, n) ==
    IF n = 0 THEN {<<>>}
    ELSE ListsOf(set, n - 1)
         \cup {Append(l, e) : l \in {x \in ListsOf(set, n - 1) : Len(x) = n - 1}, e \in set}

\* entries of the first three kinds for the lists submitted at once
ListedEntryDicts ==
    {e \in EntryDicts :
        /\ "amount" \in DOMAIN e.kwargs
        /\ e.kwargs["amount"] \in {<<"3", "0", "0">>, <<"7", "0", "0", "0">>, <<"1", "x">>}}

EntryDictLists == ListsOf(ListedEntryDicts, MaxEntries)

BatchIndexes == {-1, 0, 2}

\* the number of builder calls in a behaviour
MaxBuilderOps == 4

\* add_entries_and_addendas is among the first MaxListCalls calls
MaxListCalls == 2

(***************************************************************************)
(* The builder's operations                                                 *)
(***************************************************************************)
\* ACHFileBuilder(**file_settings)
BuilderInit ==
    /\ input = [file_settings |-> FileHeaderKwargs, entry_dict_list |-> <<>>,
                batch_index |-> -1, raise_exc |-> TRUE]
    /\ file_header_record = Make("FileHeader", FileHeaderKwargs)
    /\ batches = <<>>
    /\ file_control_record = None
    /\ recalc_file_control = FALSE
    /\ hist = [file |-> NoHistory, batches |-> <<>>]
    /\ ret = Returned("ACHFileBuilder", "ok", <<>>)
    /\ ops = 0

\* ACHFileBuilder.add_batch(**batch_settings)
builder_add_batch ==
    /\ ops < MaxBuilderOps
    /\ ops' = ops + 1
    /\ batches' = Append(batches,
          ACHBatch(Make("BatchHeader",
                        _update_batch_settings(
                            BatchSettings,
                            default_odfi_identification(input.file_settings), batches)),
                   <<>>))
    /\ hist' = [hist EXCEPT !.batches = Append(@, NoHistory)]
    /\ ret' = Returned("builder_add_batch", "ok", <<>>)
    /\ UNCHANGED <<file_header_record, file_control_record, recalc_file_control, input>>

\* the builder after a call whose outcome is out
builder_returned(op, out, value) ==
    /\ batches' = out.batches
    /\ ret' = Returned(op, out.exc, value)

\* ACHFileBuilder.add_entry_and_addenda(batch_index, **entry_details)
builder_add_entry_and_addenda ==
    \E entry_dict \in EntryDicts, batch_index \in BatchIndexes :
        /\ ops < MaxBuilderOps
        /\ ops' = ops + 1
        /\ input' = [input EXCEPT !.entry_dict_list = <<entry_dict>>,
                                  !.batch_index = batch_index]
        /\ builder_returned("add_entry_and_addenda",
                            add_entry_and_addenda(
                                batches, default_odfi_identification(input.file_settings),
                                batch_index, entry_dict),
                            <<>>)
        /\ UNCHANGED <<file_header_record, file_control_record, recalc_file_control, hist>>

\* the builder after add_entries_and_addendas returned or raised
builder_entries_returned(out) ==
    builder_returned("add_entries_and_addendas", out, out.value)

\* ACHFileBuilder.add_entries_and_addendas(entry_dict_list, batch_index, raise_exc)
builder_add_entries_and_addendas ==
    \E entry_dict_list \in EntryDictLists, batch_index \in {-1, 2}, raise_exc \in BOOLEAN :
        /\ ops < MaxListCalls
        /\ ops' = ops + 1
        /\ input' = [input EXCEPT !.entry_dict_list = entry_dict_list,
                                  !.batch_index = batch_index, !.raise_exc = raise_exc]
        /\ builder_entries_returned(
               add_entries_and_addendas(
                   batches, default_odfi_identification(input.file_settings),
                   entry_dict_list, batch_index, raise_exc))
        /\ UNCHANGED <<file_header_record, file_control_record, recalc_file_control, hist>>

BuilderNext ==
    \/ builder_add_batch
    \/ builder_add_entry_and_addenda
    \/ builder_add_entries_and_addendas

BuilderSpec == BuilderInit /\ [][BuilderNext]_vars

(***************************************************************************)
(* The tree of a builder, operated on directly and through the builder      *)
(***************************************************************************)
\* a credit without addendas and an entry whose amount is no integer
TreeEntryDicts ==
    {e \in EntryDicts :
        /\ "amount" \in DOMAIN e.kwargs
        /\ e.kwargs["amount"] \in {<<"3", "0", "0">>, <<"1", "x">>}}

\* the tree after add_entry_and_addenda returned or raised: a transaction
\* was added to the batch at batch_index, or nothing was done
entry_added_to_tree(out, batch_index) ==
    /\ batches' = out.batches
    /\ ret' = [Returned("add_entry_and_addenda", out.exc, <<>>)
                  EXCEPT !.index = PyIndex(Len(batches), batch_index)]
    /\ hist' = IF out.exc # "ok" THEN hist
               ELSE [file |-> HTouch(hist.file, file_control_record),
                     batches |-> [hist.batches EXCEPT ![PyIndex(Len(batches), batch_index)] =
                         HTouch(HMutate(@, batches[PyIndex(Len(batches), batch_index)]
                                              .batch_control_record),
                                batches[PyIndex(Len(batches), batch_index)]
                                    .batch_control_record)]]

\* ACHFileBuilder.add_entry_and_addenda(batch_index, **entry_details) on a
\* builder whose ach_file_contents is the tree
add_entry_and_addenda_to_tree ==
    \E entry_dict \in TreeEntryDicts, batch_index \in {-1, 2} :
        /\ ops < MaxOps
        /\ ops' = ops + 1
        /\ entry_added_to_tree(
               add_entry_and_addenda(batches, default_odfi_identification(FileHeaderKwargs),
                                     batch_index, entry_dict),
               batch_index)
        /\ UNCHANGED <<file_header_record, file_control_record, recalc_file_control, input>>

BuilderTreeNext == Next \/ add_entry_and_addenda_to_tree

BuilderTreeSpec == Init /\ [][BuilderTreeNext]_vars

(***************************************************************************)
(* Properties of the tree and its cached control records                    *)
(***************************************************************************)
\* every transaction of the tree, in order
TreeTransactions(bs) == Concat([i \in 1..Len(bs) |-> bs[i].transactions])

\* the physical record lines of the tree: the file header and control, two
\* per batch, one per entry and per addenda
TreeLineCount(bs) ==
    2 + (2 * Len(bs)) + Len(TreeTransactions(bs))
    + Len(Concat([i \in 1..Len(TreeTransactions(bs)) |-> TreeTransactions(bs)[i].addendas]))

FieldInt(record, field_name) == PyInt(get_field_value(record, field_name))

\* no control record of the tree was supplied through a setter
NothingSupplied ==
    /\ hist.file.origin # "supplied"
    /\ \A b \in 1..Len(batches) : hist.batches[b].origin # "supplied"

\* the sums of the transactions txs appear in the control record
ReflectsTransactions(record, txs) ==
    /\ FieldInt(record, "entry_and_addenda_count")
          = Sum([i \in 1..Len(txs) |-> get_entry_and_addenda_count(txs[i])])
    /\ FieldInt(record, "entry_hash") = Sum([i \in 1..Len(txs) |-> get_entry_hash_int(txs[i])])
    /\ FieldInt(record, "total_debit_amount")
          = Sum([i \in 1..Len(txs) |-> get_debit_amount(txs[i])])
    /\ FieldInt(record, "total_credit_amount")
          = Sum([i \in 1..Len(txs) |-> get_credit_amount(txs[i])])

\* C2: a read of the file control (or of a batch control) that follows the
\* addition or removal of a transaction or of an addenda below it, in a tree
\* where no control record was supplied, shows the entry_and_addenda_count,
\* entry_hash and debit/credit totals of the current transactions.
C2_NeverStale ==
    /\ (ret.op = "file_control_record" /\ ret.touched /\ NothingSupplied)
          => ReflectsTransactions(ret.value, TreeTransactions(batches))
    /\ (ret.op = "batch_control_record" /\ ret.touched /\ NothingSupplied)
          => ReflectsTransactions(ret.value, batches[ret.index].transactions)

\* C3: a read of a control record that follows a mutation of its owning
\* container (add_batch / remove_batch_by_index for the file; add_transaction,
\* remove_transaction_by_index, header replacement for a batch) returns the
\* record computed from the container's current children and header, whether
\* the record cached before was computed or supplied.
C3_ReadAfterMutationRecomputes ==
    /\ (ret.op = "file_control_record" /\ ret.mutated)
          => /\ ret.value = _compute_file_control_record(batches)
             /\ FieldInt(ret.value, "batch_count") = Big(Len(batches))
    /\ (ret.op = "batch_control_record" /\ ret.mutated)
          => /\ ret.value = _compute_batch_control_record(batches[ret.index])
             /\ ReflectsTransactions(ret.value, batches[ret.index].transactions)

\* a file control is read after add_batch / remove_batch_by_index and differs
\* from the record that was cached
C3_Witness ==
    /\ ret.op = "file_control_record" /\ ret.mutated
    /\ ret.cached # None /\ ret.cached[1] # ret.value
    /\ Len(batches) >= 1

C5_HeaderReplacementCompletes ==
    ret.op = "set_file_header_record"
        => /\ ret.exc = "ok"
           /\ file_header_record = ret.value
           /\ (file_control_record # None => recalc_file_control)

\* C8: the block_count of a recomputed file control is ceil(L / b) for the L
\* record lines of the tree and the blocking factor b of the file header.
C8_BlockCountUsesHeaderFactor ==
    (ret.op = "file_control_record" /\ ret.recomputed /\ NothingSupplied)
        => StrToInt(get_field_value(ret.value, "block_count"))
             = Ceil(TreeLineCount(batches),
                    StrToInt(get_field_value(file_header_record, "blocking_factor")))

\* the lines of a rendered text, without the empty piece after the terminator
RenderedLines(text) == SubSeq(Split(text, "\n"), 1, Len(Split(text, "\n")) - 1)

\* C9: the lines of the rendered text are the L record lines of the tree, the
\* file control line last, followed by exactly 10 - (L mod 10) filler lines
\* of 94 nines when L mod 10 # 0 and by no filler line when L mod 10 = 0, so
\* that the number of lines is a multiple of 10.
C9_Padding ==
    ret.op = "render_file_contents"
        => /\ ret.value[Len(ret.value)] = "\n"
           /\ Len(RenderedLines(ret.value)) % 10 = 0
           /\ Len(RenderedLines(ret.value)) - TreeLineCount(batches)
                 = (IF TreeLineCount(batches) % 10 = 0 THEN 0
                    ELSE 10 - (TreeLineCount(batches) % 10))
           /\ RenderedLines(ret.value)[TreeLineCount(batches)]
                 = render_record_line(file_control_record[1])
           /\ \A k \in 1..Len(RenderedLines(ret.value)) :
                 (RenderedLines(ret.value)[k] = Rep("9", 94)) <=> (k > TreeLineCount(batches))

\* a tree of ten record lines is rendered, and so is one of fewer lines
C9_Witness ==
    /\ ret.op = "render_file_contents"
    /\ TreeLineCount(batches) % 10 # 0
    /\ Len(TreeTransactions(batches)) >= 1

(***************************************************************************)
(* Properties of the computed control records                               *)
(***************************************************************************)
\* n mod 10^width
ModWidth(n, width) ==
    PyInt(SubSeq(PyStr(n), IF Len(PyStr(n)) > width THEN Len(PyStr(n)) - width + 1 ELSE 1,
                 Len(PyStr(n))))

\* the sums of the transactions txs appear in the control record, each modulo
\* the width of its field
ReflectsTransactionsModWidth(record, txs) ==
    /\ FieldInt(record, "entry_and_addenda_count")
          = ModWidth(Sum([i \in 1..Len(txs) |-> get_entry_and_addenda_count(txs[i])]),
                     Len(get_field_value(record, "entry_and_addenda_count")))
    /\ FieldInt(record, "entry_hash")
          = ModWidth(Sum([i \in 1..Len(txs) |-> get_entry_hash_int(txs[i])]), 10)
    /\ FieldInt(record, "total_debit_amount")
          = ModWidth(Sum([i \in 1..Len(txs) |-> get_debit_amount(txs[i])]), 12)
    /\ FieldInt(record, "total_credit_amount")
          = ModWidth(Sum([i \in 1..Len(txs) |-> get_credit_amount(txs[i])]), 12)

\* the control record copies these fields of the batch header
CopiesHeader(record, header) ==
    \A k \in {"service_class_code", "company_identification", "odfi_identification",
               "batch_number"} : get_field_value(record, k) = get_field_value(header, k)

C7_BatchControl ==
    (ret.op = "batch_control_record" /\ ret.recomputed)
        => /\ ReflectsTransactions(ret.value, batches[ret.index].transactions)
           /\ CopiesHeader(ret.value, batches[ret.index].batch_header_record)

\* C7 (amended): the sums are kept modulo 10^6 (entry_and_addenda_count),
\* 10^10 (entry_hash) and 10^12 (totals); the header fields are copied.
C7_BatchControlModWidth ==
    (ret.op = "batch_control_record" /\ ret.recomputed)
        => /\ ReflectsTransactionsModWidth(ret.value, batches[ret.index].transactions)
           /\ CopiesHeader(ret.value, batches[ret.index].batch_header_record)

\* the control of a batch of BulkSize large entries is computed
C7_Witness ==
    /\ ret.op = "batch_control_record" /\ ret.recomputed
    /\ Len(batches[ret.index].transactions) >= BulkSize
    /\ FieldInt(ret.value, "entry_hash")
          # Sum([i \in 1..BulkSize |-> get_entry_hash_int(batches[ret.index].transactions[i])])

(***************************************************************************)
(* Properties of single records                                             *)
(***************************************************************************)
\* C10: the line rendered from a successfully constructed record of any of
\* the six schemas has length exactly 94, every field having the width its
\* schema declares, whether the values given are shorter or longer.
C10_Width ==
    (ret.op = "RecordType" /\ ret.exc = "ok")
        => /\ Len(render_record_line(ret.value)) = 94
           /\ \A i \in 1..Len(field_definition_dict(input.cls)) :
                 Len(get_field_value(ret.value, field_definition_dict(input.cls)[i].key))
                   = field_definition_dict(input.cls)[i].length

\* a record is constructed from a value longer than its field
C10_Witness ==
    /\ ret.op = "RecordType" /\ ret.exc = "ok"
    /\ input.cls = "Addenda"
    /\ Len(input.kwargs["payment_related_information"]) > 80

(***************************************************************************)
(* Properties of parsing                                                    *)
(***************************************************************************)
\* C1: rendering the file parsed from a well-formed text reproduces the text
\* exactly.
C1_RoundTrip ==
    (ret.op = "render_file_contents" /\ hist.file.origin = "supplied") => ret.value = input

(***************************************************************************)
(* Properties of the rendering order                                        *)
(***************************************************************************)
\* the records of a transaction, of a batch and of the file, in file order
TransactionRecords(tx) == <<tx.entry[1]>> \o tx.addendas

BatchRecords(batch) ==
    <<batch.batch_header_record>>
    \o Concat([t \in 1..Len(batch.transactions) |-> TransactionRecords(batch.transactions[t])])
    \o <<batch.batch_control_record[1]>>

FileRecords ==
    <<file_header_record>>
    \o Concat([b \in 1..Len(batches) |-> BatchRecords(batches[b])])
    \o <<file_control_record[1]>>

\* C11: the lines rendered before the fillers are, one per record and in
\* this order, the file header, then per batch in list order the batch
\* header, per transaction in list order the entry followed by its addendas,
\* and the batch control, then the file control: as many lines as records.
C11_RenderingOrder ==
    ret.op = "render_file_contents"
        => /\ Len(FileRecords) = TreeLineCount(batches)
           /\ Len(RenderedLines(ret.value)) >= Len(FileRecords)
           /\ \A k \in 1..Len(FileRecords) :
                 RenderedLines(ret.value)[k] = render_record_line(FileRecords[k])

\* a file is rendered whose first batch holds a transaction with an addenda
\* followed by another transaction
C11_Witness ==
    /\ ret.op = "render_file_contents"
    /\ Len(batches) >= 1
    /\ Len(batches[1].transactions) = 2
    /\ Len(batches[1].transactions[1].addendas) = 1

(***************************************************************************)
(* Properties of the builder                                                *)
(***************************************************************************)
\* C12: add_entry_and_addenda raises NoBatchForTransactionError exactly when
\* the file has no batch, whatever the entry, and then leaves the tree as it
\* was; the entries of a list fail with that error only in a file without
\* batches.
C12_NoBatchError ==
    [][/\ ret'.op = "add_entry_and_addenda"
          => /\ (Len(batches) = 0) <=> (ret'.exc = "NoBatchForTransactionError")
             /\ Len(batches) = 0
                   => /\ batches' = batches
                      /\ file_header_record' = file_header_record
                      /\ file_control_record' = file_control_record
       /\ ret'.op = "add_entries_and_addendas"
          => /\ (ret'.exc = "NoBatchForTransactionError") => Len(batches) = 0
             /\ \A j \in 1..Len(ret'.value) :
                   (ret'.value[j].exc = "NoBatchForTransactionError") <=> (Len(batches) = 0)
      ]_vars

\* a valid entry was refused by a builder without batches
C12_Witness ==
    /\ ret.op = "add_entry_and_addenda"
    /\ ret.exc = "NoBatchForTransactionError"
    /\ batches = <<>>
    /\ RecordType("EntryDetail",
                  _update_entry_detail_kwargs(input.entry_dict_list[1], <<>>, batches)).exc
          = "ok"

\* the entry of the list submitted to add_entries_and_addendas fails when
\* added alone to the batches bs
Fails(bs, entry_dict_list, batch_index, k) ==
    add_entry_and_addenda(bs, <<>>, batch_index, entry_dict_list[k]).exc # "ok"

\* the positions of the list, in order, whose entries fail or do not fail
Positions_(bs, entry_dict_list, batch_index, failing) ==
    SelectSeq([k \in 1..Len(entry_dict_list) |-> k],
              LAMBDA k : Fails(bs, entry_dict_list, batch_index, k) = failing)

\* the transactions appended to the target batch by the call
AddedTransactions(before, after, batch_index) ==
    IF PyIndex(Len(before), batch_index) = 0 THEN <<>>
    ELSE SubSeq(after[PyIndex(Len(before), batch_index)].transactions,
                Len(before[PyIndex(Len(before), batch_index)].transactions) + 1,
                Len(after[PyIndex(Len(before), batch_index)].transactions))

\* the transactions txs are those of the entries at the positions, in order
MadeFrom(txs, entry_dict_list, positions) ==
    /\ Len(txs) = Len(positions)
    /\ \A j \in 1..Len(positions) :
          /\ FieldInt(txs[j].entry[1], "amount")
                = PyInt(entry_dict_list[positions[j]].kwargs["amount"])
          /\ Len(txs[j].addendas) = Len(raw_addendas(entry_dict_list[positions[j]]))

\* only the target batch changed, by transactions appended to it
OnlyAppended(before, after, batch_index) ==
    /\ Len(after) = Len(before)
    /\ \A b \in 1..Len(before) :
          /\ after[b].batch_header_record = before[b].batch_header_record
          /\ SubSeq(after[b].transactions, 1, Len(before[b].transactions))
                = before[b].transactions
          /\ b # PyIndex(Len(before), batch_index)
                => after[b].transactions = before[b].transactions

\* the outcome of add_entries_and_addendas with raise_exc = False
Collected(before, after, entry_dict_list, batch_index, returned) ==
    /\ returned.exc = "ok"
    /\ Len(returned.value) = Len(Positions_(before, entry_dict_list, batch_index, TRUE))
    /\ \A j \in 1..Len(returned.value) :
          /\ returned.value[j].index
                = Positions_(before, entry_dict_list, batch_index, TRUE)[j]
          /\ returned.value[j].entry.kwargs
                = entry_dict_list[returned.value[j].index].kwargs
          /\ returned.value[j].exc # "ok"
    /\ MadeFrom(AddedTransactions(before, after, batch_index), entry_dict_list,
                Positions_(before, entry_dict_list, batch_index, FALSE))
    /\ Len(returned.value) + Len(AddedTransactions(before, after, batch_index))
          = Len(entry_dict_list)

\* the outcome of add_entries_and_addendas with raise_exc = True
RaisedAtFirst(before, after, entry_dict_list, batch_index, returned) ==
    IF Positions_(before, entry_dict_list, batch_index, TRUE) = <<>>
    THEN /\ returned.exc = "ok"
         /\ returned.value = <<>>
         /\ MadeFrom(AddedTransactions(before, after, batch_index), entry_dict_list,
                     [k \in 1..Len(entry_dict_list) |-> k])
    ELSE /\ returned.exc # "ok"
         /\ MadeFrom(AddedTransactions(before, after, batch_index), entry_dict_list,
                     [k \in 1..(Positions_(before, entry_dict_list, batch_index, TRUE)[1]
                                  - 1) |-> k])

\* C13: add_entries_and_addendas with raise_exc = False never raises and
\* returns one (entry, cause) pair per failing entry, in input order, while
\* the other entries are appended to the target batch in input order, pairs
\* and appended transactions together numbering the submitted entries; with
\* raise_exc = True it raises at the first failing entry, the entries before
\* it appended and none after it.
C13_CollectOrRaise ==
    [][ret'.op = "add_entries_and_addendas"
          => /\ OnlyAppended(batches, batches', input'.batch_index)
             /\ IF input'.raise_exc
                THEN RaisedAtFirst(batches, batches', input'.entry_dict_list,
                                   input'.batch_index, ret')
                ELSE Collected(batches, batches', input'.entry_dict_list,
                               input'.batch_index, ret')
      ]_vars

\* three entries were submitted without raise_exc to a builder with a
\* batch: the second failed and was returned, the others were added
C13_Witness ==
    /\ ret.op = "add_entries_and_addendas"
    /\ ~input.raise_exc
    /\ Len(input.entry_dict_list) = 3
    /\ Len(ret.value) = 1
    /\ ret.value[1].index = 2
    /\ Len(batches) = 1
    /\ Len(batches[1].transactions) = 2

(***************************************************************************)
(* Properties of record construction                                        *)
(***************************************************************************)
\* the positions of the schema's fields that fail for the arguments: a
\* required value without default is missing, or the value does not validate
FailingFields(cls, kwargs) ==
    SelectSeq([i \in 1..Len(field_definition_dict(cls)) |-> i],
              LAMBDA i : _create_cleaned_value(
                             field_definition_dict(cls)[i],
                             Get(kwargs, field_definition_dict(cls)[i].key)).exc # "ok")

UnknownNames(cls, kwargs) == (DOMAIN kwargs) \ Keys(field_definition_dict(cls))

\* the aggregate error names the failing fields in schema order, each with
\* its cause, and no record is produced
AggregateOf(cls, kwargs, returned) ==
    /\ returned.exc = "RecordTypeAggregateFieldCreationError"
    /\ returned.value = <<>>
    /\ Len(returned.cached.failed_keys) = Len(FailingFields(cls, kwargs))
    /\ Len(returned.cached.exceptions) = Len(FailingFields(cls, kwargs))
    /\ \A j \in 1..Len(FailingFields(cls, kwargs)) :
          /\ returned.cached.failed_keys[j]
                = field_definition_dict(cls)[FailingFields(cls, kwargs)[j]].key
          /\ returned.cached.exceptions[j]
                = _create_cleaned_value(
                      field_definition_dict(cls)[FailingFields(cls, kwargs)[j]],
                      Get(kwargs, returned.cached.failed_keys[j])).exc

\* the unknown-field error lists every unknown name and no field was made
UnknownOf(cls, kwargs, returned) ==
    /\ returned.exc = "InvalidRecordTypeParametersError"
    /\ returned.value = <<>>
    /\ returned.cached.invalid_kwargs = UnknownNames(cls, kwargs)
    /\ returned.cached.failed_keys = <<>>

\* C14: a construction with a name outside the schema is rejected with the
\* unknown-field error listing every such name, before any field is made;
\* otherwise, when k >= 1 fields fail (a missing required value or a value
\* that does not validate), it raises one aggregate error naming exactly
\* those k fields in schema order, each paired with its cause, and produces
\* no record.
C14_AllFailuresReported ==
    ret.op = "RecordType"
        => IF UnknownNames(input.cls, input.kwargs) # {}
           THEN UnknownOf(input.cls, input.kwargs, ret)
           ELSE FailingFields(input.cls, input.kwargs) # <<>>
                   => AggregateOf(input.cls, input.kwargs, ret)

\* C14 for the calls that pass every positional parameter of the constructor
C14_WhenPositionalsGiven ==
    (ret.op = "RecordType" /\ PositionalArgs(input.cls) \subseteq DOMAIN input.kwargs)
        => IF UnknownNames(input.cls, input.kwargs) # {}
           THEN UnknownOf(input.cls, input.kwargs, ret)
           ELSE FailingFields(input.cls, input.kwargs) # <<>>
                   => AggregateOf(input.cls, input.kwargs, ret)

\* two fields of a record failed and both were reported
C14_Witness ==
    /\ ret.op = "RecordType"
    /\ ret.exc = "RecordTypeAggregateFieldCreationError"
    /\ Len(ret.cached.failed_keys) = 2
    /\ PositionalArgs(input.cls) \subseteq DOMAIN input.kwargs

(***************************************************************************)
(* Properties of single fields                                              *)
(***************************************************************************)
\* the field made from the string s: its validation error, or its value
FieldFrom(fd, s, made) ==
    IF do_validation(fd.field_type,
                     correct_input(fd.field_type, s, fd.auto_correct_input)) # "ok"
    THEN made.exc = do_validation(fd.field_type,
                                  correct_input(fd.field_type, s, fd.auto_correct_input))
    ELSE /\ made.exc = "ok"
         /\ made.value = apply_fixed_length(
                             fd.field_type,
                             correct_input(fd.field_type, s, fd.auto_correct_input),
                             fd.length)

\* C15: a value that was given, the empty string and 0 included, is the one
\* the field is made from, whatever the default; without a value the field
\* is made from the default; EmptyRequiredFieldError is raised exactly when
\* no value is given to a required field without default; a field that is
\* not required, without value and default, is all padding.
C15_ValueResolution ==
    ret.op = "Field"
        => /\ (ret.exc = "EmptyRequiredFieldError")
                 <=> (input.value = None /\ input.fd.required /\ input.fd.default = None)
           /\ input.value # None => FieldFrom(input.fd, input.value[1], ret)
           /\ (input.value = None /\ input.fd.default # None)
                 => FieldFrom(input.fd, input.fd.default[1], ret)
           /\ (input.value = None /\ input.fd.default = None /\ ~input.fd.required)
                 => /\ ret.exc = "ok"
                    /\ ret.value = Rep(IF input.fd.field_type = "Integer" THEN "0" ELSE " ",
                                       input.fd.length)

\* the value 0 was given to a field whose default is 42
C15_Witness ==
    /\ ret.op = "Field" /\ ret.exc = "ok"
    /\ input.value = Some(<<"0">>)
    /\ input.fd.default = Some(<<"4", "2">>)
    /\ input.fd.field_type = "Integer" /\ input.fd.length = 3
    /\ ret.value = <<"0", "0", "0">>

RightAligned(ft) == ft \in {"Integer", "BlankPaddedRoutingNumber"}

PaddingOf(ft) == IF ft = "Integer" THEN "0" ELSE " "

\* the string s at exactly the width: padded or cut on the side of the type
FixedTo(ft, s, width, result) ==
    /\ Len(result) = width
    /\ IF Len(s) <= width
       THEN result = (IF RightAligned(ft)
                      THEN Rep(PaddingOf(ft), width - Len(s)) \o s
                      ELSE s \o Rep(PaddingOf(ft), width - Len(s)))
       ELSE result = (IF RightAligned(ft)
                      THEN SubSeq(s, Len(s) - width + 1, Len(s))
                      ELSE SubSeq(s, 1, width))

\* C16: apply_fixed_length returns exactly width characters: a shorter value
\* padded on the right for the left-aligned types and on the left for the
\* right-aligned ones, a longer value cut at its end for the left-aligned
\* types and at its start for the right-aligned ones; and the value of every
\* field made has the width of its definition.
C16_FixedLength ==
    /\ ret.op = "apply_fixed_length"
          => FixedTo(input.fd.field_type, input.value[1], input.fd.length, ret.value)
    /\ (ret.op = "Field" /\ ret.exc = "ok") => Len(ret.value) = input.fd.length

\* an integer value longer than its field lost its leading digits
C16_Witness ==
    /\ ret.op = "apply_fixed_length"
    /\ input.fd.field_type = "Integer" /\ input.fd.length = 3
    /\ input.value = Some(<<"1", "2", "3", "4", "5", "6", "7">>)
    /\ ret.value = <<"5", "6", "7">>

HasDisallowed(s) == \E i \in 1..Len(s) : s[i] \notin AlphaNumAllowed

C18_Classification ==
    ret.op = "classification"
        => /\ ret.value.is_credit <=> (input.code % 10 \in {2, 3})
           /\ ret.value.is_debit <=> (input.code % 10 \in {7, 8})
           /\ ret.value.is_prenote <=> (input.code % 10 \in {3, 8})
           /\ ret.value.is_checking <=> (input.code \div 10 = 2)
           /\ ret.value.is_savings <=> (input.code \div 10 = 3)

\* C19: TransactionCode(value) for a value that is not one of the eight
\* declared codes raises ValueError and yields no code.
C19_UnknownRejected ==
    (ret.op = "TransactionCode" /\ input.code \notin {22, 23, 27, 28, 32, 33, 37, 38})
        => ret.exc = "ValueError" /\ ret.value = <<>>

(***************************************************************************)
(* Properties of reassembly                                                 *)
(***************************************************************************)
CodeAt(records_list, i) == StrToInt(record_type_code(records_list[i]))

\* file header, batches, file control; a batch is a header, entries each
\* followed by its addendas, and a control
WellFormed(records_list) ==
    /\ Len(records_list) >= 2
    /\ CodeAt(records_list, 1) = FILE_HEADER_RECORD_TYPE_CODE
    /\ CodeAt(records_list, Len(records_list)) = FILE_CONTROL_RECORD_TYPE_CODE
    /\ \A i \in 2..(Len(records_list) - 1) :
          /\ CodeAt(records_list, i) \in
                 {BATCH_HEADER_RECORD_TYPE_CODE, ENTRY_DETAIL_RECORD_TYPE_CODE,
                  ADDENDA_RECORD_TYPE_CODE, BATCH_CONTROL_RECORD_TYPE_CODE}
          /\ CodeAt(records_list, i) = BATCH_HEADER_RECORD_TYPE_CODE
                => CodeAt(records_list, i - 1) \in
                       {FILE_HEADER_RECORD_TYPE_CODE, BATCH_CONTROL_RECORD_TYPE_CODE}
          /\ CodeAt(records_list, i) = BATCH_CONTROL_RECORD_TYPE_CODE
                => CodeAt(records_list, i + 1) \in
                       {BATCH_HEADER_RECORD_TYPE_CODE, FILE_CONTROL_RECORD_TYPE_CODE}
          /\ CodeAt(records_list, i) = ENTRY_DETAIL_RECORD_TYPE_CODE
                => CodeAt(records_list, i - 1) \in
                       {BATCH_HEADER_RECORD_TYPE_CODE, ENTRY_DETAIL_RECORD_TYPE_CODE,
                        ADDENDA_RECORD_TYPE_CODE}
          /\ CodeAt(records_list, i) = ADDENDA_RECORD_TYPE_CODE
                => CodeAt(records_list, i - 1) \in
                       {ENTRY_DETAIL_RECORD_TYPE_CODE, ADDENDA_RECORD_TYPE_CODE}
    /\ CodeAt(records_list, 2) \in
           {BATCH_HEADER_RECORD_TYPE_CODE, FILE_CONTROL_RECORD_TYPE_CODE}
    /\ CodeAt(records_list, Len(records_list) - 1) \in
           {FILE_HEADER_RECORD_TYPE_CODE, BATCH_CONTROL_RECORD_TYPE_CODE}

\* every batch of the list has an entry
BatchesHaveEntries(records_list) ==
    \A i \in 2..(Len(records_list) - 1) :
        CodeAt(records_list, i) = BATCH_HEADER_RECORD_TYPE_CODE
            => CodeAt(records_list, i + 1) = ENTRY_DETAIL_RECORD_TYPE_CODE

\* the records a transaction, a batch and the tree hold, in their order
Held(tx) == tx.entry \o tx.addendas

BatchHeld(batch) ==
    <<batch.batch_header_record>>
    \o Concat([t \in 1..Len(batch.transactions) |-> Held(batch.transactions[t])])
    \o batch.batch_control_record

TreeHeld ==
    <<file_header_record>>
    \o Concat([b \in 1..Len(batches) |-> BatchHeld(batches[b])])
    \o file_control_record

\* the tree holds the records of the list, each once and in the order of the
\* list: the first as file header, the last as file control, every batch
\* with its header and control, every transaction with one entry and then
\* addendas only
Reassembled(records_list) ==
    /\ ret.exc = "ok"
    /\ TreeHeld = records_list
    /\ file_header_record = records_list[1]
    /\ file_control_record = Some(records_list[Len(records_list)])
    /\ \A b \in 1..Len(batches) :
          /\ record_type_code(batches[b].batch_header_record)
                = IntToStr(BATCH_HEADER_RECORD_TYPE_CODE)
          /\ batches[b].batch_control_record # None
          /\ record_type_code(batches[b].batch_control_record[1])
                = IntToStr(BATCH_CONTROL_RECORD_TYPE_CODE)
          /\ \A t \in 1..Len(batches[b].transactions) :
                /\ batches[b].transactions[t].entry # None
                /\ record_type_code(batches[b].transactions[t].entry[1])
                      = IntToStr(ENTRY_DETAIL_RECORD_TYPE_CODE)
                /\ \A a \in 1..Len(batches[b].transactions[t].addendas) :
                      record_type_code(batches[b].transactions[t].addendas[a])
                         = IntToStr(ADDENDA_RECORD_TYPE_CODE)

\* C20: from a well-formed list of records the parser makes the first the
\* file header and the last the file control, the batches in the order of
\* the list with their headers, the transactions of each in that order, each
\* with its entry and exactly the addendas that follow it; no entry or
\* addenda is moved, dropped, duplicated or made up.
C20_Reassembly ==
    (ret.op = "convert_records_list_to_ach_file_contents" /\ WellFormed(input.records_list))
        => Reassembled(input.records_list)

\* the same for the lists whose batches all have an entry
ReassemblyWhenBatchesHaveEntries ==
    (/\ ret.op = "convert_records_list_to_ach_file_contents"
     /\ WellFormed(input.records_list)
     /\ BatchesHaveEntries(input.records_list))
        => Reassembled(input.records_list)

\* two batches, the second with two entries and an addenda each, were made
\* from a well-formed list
ReassembledTwoBatches ==
    /\ ret.op = "convert_records_list_to_ach_file_contents"
    /\ WellFormed(input.records_list)
    /\ Len(batches) = 2
    /\ Len(batches[2].transactions) = 2
    /\ Len(batches[2].transactions[1].addendas) = 1
    /\ Len(batches[2].transactions[2].addendas) = 1
    /\ Len(batches[1].transactions) = 1

(***************************************************************************)
(* Properties of repeated reads                                             *)
(***************************************************************************)
\* a read of a control record directly after a read of the same record
SameRecordReadAgain ==
    \/ ret.op = "file_control_record" /\ ret'.op = "file_control_record"
    \/ /\ ret.op = "batch_control_record" /\ ret'.op = "batch_control_record"
       /\ ret.index = ret'.index

\* C21: a read of file_control_record or batch_control_record that directly
\* follows a read of the same record, with no mutation in between, returns
\* the cached record without recomputing, also when the first of the two
\* reads recomputed after an invalidation.
C21_RepeatedReadUsesCache ==
    [][SameRecordReadAgain => (~ret'.recomputed /\ ret'.value = ret.value)]_vars

(***************************************************************************)
(* Properties of the builder's numbering                                    *)
(***************************************************************************)
\* the decimal digits of n, right-aligned in a field of the width
Numbered(n, width) == Rep("0", width - Len(IntToStr(n))) \o IntToStr(n)

\* the entry passes its own sequence number
Overrides(entry_dict) ==
    \/ "trace_sequence_number" \in DOMAIN entry_dict.kwargs
    \/ "trace_number" \in DOMAIN entry_dict.kwargs

\* no transaction of the batches was made from an entry that passes its own
\* sequence number
DerivedOnly(bs) ==
    \A t \in 1..Len(get_all_transactions(bs)) :
        \A e \in NumberedEntryDicts :
            get_field_value(get_all_transactions(bs)[t].entry[1], "amount")
               # Numbered(StrToInt(e.kwargs["amount"]), 10)

TraceSequenceNumbers(bs) ==
    {get_field_value(get_all_transactions(bs)[t].entry[1], "trace_sequence_number") :
        t \in 1..Len(get_all_transactions(bs))}

\* the transaction a successful add_entry_and_addenda appended
AppendedTransaction ==
    batches'[PyIndex(Len(batches), input'.batch_index)].transactions[
        Len(batches'[PyIndex(Len(batches), input'.batch_index)].transactions)]

\* C22: after every call of the builder the i-th batch has batch_number i;
\* a transaction added without a sequence number of its own gets the number
\* of transactions of the file before it plus one, whichever batch it goes
\* to; a failed call adds nothing; so while no entry passes its own number
\* the trace sequence numbers of the file are 1..n, pairwise distinct.
C22_Numbering ==
    [][/\ \A i \in 1..Len(batches') :
             get_field_value(batches'[i].batch_header_record, "batch_number") = Numbered(i, 7)
       /\ (/\ ret'.op = "add_entry_and_addenda"
           /\ ret'.exc = "ok"
           /\ ~Overrides(input'.entry_dict_list[1]))
             => /\ Len(get_all_transactions(batches')) = Len(get_all_transactions(batches)) + 1
                /\ get_field_value(AppendedTransaction.entry[1], "trace_sequence_number")
                      = Numbered(Len(get_all_transactions(batches)) + 1, 7)
       /\ (ret'.op = "add_entry_and_addenda" /\ ret'.exc # "ok") => batches' = batches
       /\ DerivedOnly(batches')
             => /\ TraceSequenceNumbers(batches')
                      = {Numbered(j, 7) : j \in 1..Len(get_all_transactions(batches'))}
                /\ Cardinality(TraceSequenceNumbers(batches'))
                      = Len(get_all_transactions(batches'))
      ]_vars

\* the second batch got number 2 and its transaction, the second of the
\* file, sequence number 2
C22_Witness ==
    /\ ret.op = "add_entry_and_addenda" /\ ret.exc = "ok"
    /\ Len(batches) = 2
    /\ Len(batches[1].transactions) = 1
    /\ Len(batches[2].transactions) = 1
    /\ get_field_value(batches[2].batch_header_record, "batch_number") = Numbered(2, 7)
    /\ get_field_value(batches[1].transactions[1].entry[1], "trace_sequence_number")
          = Numbered(1, 7)
    /\ get_field_value(batches[2].transactions[1].entry[1], "trace_sequence_number")
          = Numbered(2, 7)

(***************************************************************************)
(* Properties of Date fields                                                *)
(***************************************************************************)
\* C23: a Date field given a value that fails validation, six digits that
\* are no calendar date included, raises ValueMismatchesFieldTypeError.
C23_DateFailuresAreMismatchErrors ==
    (/\ ret.op = "Field"
     /\ input.fd.field_type = "Date"
     /\ input.value # None
     /\ ret.exc # "ok")
        => ret.exc = "ValueMismatchesFieldTypeError"

\* a Date field refused a value that is not six digits with the typed error
DateFailureOfThePattern ==
    /\ ret.op = "Field"
    /\ input.fd.field_type = "Date"
    /\ input.value = Some(<<"A", "B">>)
    /\ ret.exc = "ValueMismatchesFieldTypeError"


(***************************************************************************)
(* Properties of parsing a rendered tree                                    *)
(***************************************************************************)
HasEmptyBatch(bs) == \E i \in 1..Len(bs) : Len(bs[i].transactions) = 0

SameShape(bs, cs) ==
    /\ Len(bs) = Len(cs)
    /\ \A i \in 1..Len(bs) : Len(bs[i].transactions) = Len(cs[i].transactions)

RoundTripKeepsShape ==
    /\ ret.op = "process_ach_file_contents"
          => ret.exc = "ok" /\ SameShape(batches, input.rendered)
    /\ (ops = 3 /\ ret.op = "render_file_contents")
          => ret.exc = "ok" /\ SameShape(batches, input.rendered)

\* C24: the text of a tree with a batch without transactions parses to a
\* tree with as many batches, and as many transactions in each, as the tree
\* rendered (none in that batch), and the parsed tree renders.
C24_EmptyBatchRoundTrip == HasEmptyBatch(input.rendered) => RoundTripKeepsShape

\* when every batch rendered has a transaction the shape is kept
RoundTripWithoutEmptyBatch == ~HasEmptyBatch(input.rendered) => RoundTripKeepsShape

\* a parsed tree of two batches with transactions was rendered
RenderedParsedTwoBatches ==
    /\ ops = 3 /\ ret.op = "render_file_contents" /\ ret.exc = "ok"
    /\ Len(batches) = 2
    /\ Len(batches[1].transactions) = 2 /\ Len(batches[2].transactions) = 1


(***************************************************************************)
(* Properties of the block count                                            *)
(***************************************************************************)
\* the block_count and the line count of the file control agree with the
\* lines of the text
BlockCountMatchesText(control, batch_count, text) ==
    /\ StrToInt(get_field_value(control, "block_count")) * FILE_HEADER_BLOCKING_FACTOR
          = Len(RenderedLines(text))
    /\ StrToInt(get_field_value(control, "entry_and_addenda_count")) + (2 * batch_count) + 2
          = Cardinality({k \in 1..Len(RenderedLines(text)) :
                            RenderedLines(text)[k] # FillerLine})

\* C25: in a tree where no control record was supplied, the block_count of
\* the file control times the blocking factor is the number of lines of the
\* rendered text, filler lines included, and entry_and_addenda_count + 2 per
\* batch + 2 is the number of its lines that are not filler.
C25_BlockCountMatchesRenderedLines ==
    (ret.op = "render_file_contents" /\ NothingSupplied)
        => BlockCountMatchesText(file_control_record[1], Len(batches), ret.value)

\* the first rendering of a tree, no control record read before
FirstRenderingBlockCount ==
    (ops = 1 /\ ret.op = "render_file_contents")
        => BlockCountMatchesText(file_control_record[1], Len(batches), ret.value)


(***************************************************************************)
(* Properties of the debit and credit totals                                *)
(***************************************************************************)
AmountsOf(txs) == Sum([i \in 1..Len(txs) |-> get_amount(txs[i])])

TotalsOf(record) ==
    Add(FieldInt(record, "total_debit_amount"), FieldInt(record, "total_credit_amount"))

\* C26 (as stated): the debit and credit totals of a computed batch control
\* add up to the sum of the amounts of the batch's transactions, and those
\* of a computed file control to the sum over all the transactions.
C26_EveryAmountInOneTotal ==
    /\ (ret.op = "batch_control_record" /\ ret.recomputed)
          => TotalsOf(ret.value) = AmountsOf(batches[ret.index].transactions)
    /\ (ret.op = "file_control_record" /\ ret.recomputed)
          => TotalsOf(ret.value) = AmountsOf(TreeTransactions(batches))

\* C26 (amended): every transaction code is a credit or a debit and never
\* both, and the debit and credit totals of a computed batch control, and
\* of a computed file control, add up to the sum of the amounts of the
\* transactions below it modulo 10^12, the width of the total fields.
C26_EveryAmountInOneTotalModWidth ==
    /\ \A code \in TwoDigitCodes : is_credit(code) # is_debit(code)
    /\ (ret.op = "batch_control_record" /\ ret.recomputed)
          => ModWidth(TotalsOf(ret.value), 12)
               = ModWidth(AmountsOf(batches[ret.index].transactions), 12)
    /\ (ret.op = "file_control_record" /\ ret.recomputed)
          => ModWidth(TotalsOf(ret.value), 12)
               = ModWidth(AmountsOf(TreeTransactions(batches)), 12)

\* the file control of a tree with credits and debits is computed, the
\* amounts adding up to more than twelve digits
C26_Witness ==
    /\ ret.op = "file_control_record" /\ ret.recomputed
    /\ \E i \in 1..Len(TreeTransactions(batches)) :
          get_credit_amount(TreeTransactions(batches)[i]) # Big(0)
    /\ \E i \in 1..Len(TreeTransactions(batches)) :
          get_debit_amount(TreeTransactions(batches)[i]) # Big(0)
    /\ Len(PyStr(AmountsOf(TreeTransactions(batches)))) > 12
    /\ FieldInt(ret.value, "total_credit_amount") # Big(0)


(***************************************************************************)
(* Properties of the entry hash                                             *)
(***************************************************************************)
\* the first eight digits of the routing number of the entry
HashContribution(tx) == PyInt(SubSeq(get_field_value(tx.entry[1], "rdfi_routing"), 1, 8))

HashOf(txs) == Sum([i \in 1..Len(txs) |-> HashContribution(txs[i])])

\* C27: the entry_hash of a computed batch control is the sum of the hash
\* contributions of the batch's transactions modulo 10^10, and the
\* entry_hash of a computed file control is the sum of the contributions of
\* all the transactions of the file modulo 10^10.
C27_EntryHashModulo ==
    /\ (ret.op = "batch_control_record" /\ ret.recomputed)
          => FieldInt(ret.value, "entry_hash")
               = ModWidth(HashOf(batches[ret.index].transactions), 10)
    /\ (ret.op = "file_control_record" /\ ret.recomputed)
          => FieldInt(ret.value, "entry_hash") = ModWidth(HashOf(TreeTransactions(batches)), 10)

\* the file control of two batches is computed, one of them with a hash
\* sum of more than ten digits on its own, the other with a hash of its own
C27_Witness ==
    /\ ret.op = "file_control_record" /\ ret.recomputed
    /\ Len(batches) = 2
    /\ Len(PyStr(HashOf(batches[1].transactions))) > 10
    /\ HashOf(batches[2].transactions) # Big(0)
    /\ FieldInt(ret.value, "entry_hash") # HashOf(TreeTransactions(batches))


(***************************************************************************)
(* Properties of fields made again from their value                         *)
(***************************************************************************)
\* C28: the value of a field made with a definition of the six schemas is
\* accepted by the same definition and gives the same value again.
C28_Idempotent ==
    ret.op = "Field again" => ret.exc = "ok" /\ ret.value = ret.cached[1]

\* the same for every value but the blank one of a routing number
IdempotentButBlankRouting ==
    (/\ ret.op = "Field again"
     /\ ~(input.fd.field_type = "BlankPaddedRoutingNumber" /\ IsBlank(ret.cached[1])))
        => ret.exc = "ok" /\ ret.value = ret.cached[1]

\* a routing number of nine digits came back as it was
RoutingNumberMadeAgain ==
    /\ ret.op = "Field again" /\ ret.exc = "ok"
    /\ input.fd.field_type = "BlankPaddedRoutingNumber"
    /\ ret.value = <<" ", "1", "2", "3", "4", "5", "6", "7", "8", "9">>


(***************************************************************************)
(* Properties of the addendas the builder makes                             *)
(***************************************************************************)
\* the addendas of the transaction carry the sequence number of its entry
\* and are numbered from 1 in list order
AddendasFollowEntry(tx) ==
    \A i \in 1..Len(tx.addendas) :
        /\ get_field_value(tx.addendas[i], "entry_detail_sequence_number")
              = get_field_value(tx.entry[1], "trace_sequence_number")
        /\ get_field_value(tx.addendas[i], "addenda_sequence_number") = Numbered(i, 4)

\* C29: every addenda of every transaction the builder made has the
\* trace_sequence_number of its entry as entry_detail_sequence_number,
\* whether the entry's number was derived, passed as trace_sequence_number
\* or passed inside a trace_number, and the addendas of a transaction have
\* the addenda_sequence_number 1..n in list order.
C29_AddendasFollowEntry ==
    \A t \in 1..Len(get_all_transactions(batches)) :
        AddendasFollowEntry(get_all_transactions(batches)[t])

\* the entry was made from entry details with a trace_number
PassedTraceNumber(tx) ==
    \E e \in NumberedEntryDicts :
        /\ "trace_number" \in DOMAIN e.kwargs
        /\ get_field_value(tx.entry[1], "amount") = Numbered(StrToInt(e.kwargs["amount"]), 10)

\* the same for the entries that pass no trace_number
AddendasFollowEntryWithoutTraceNumber ==
    \A t \in 1..Len(get_all_transactions(batches)) :
        ~PassedTraceNumber(get_all_transactions(batches)[t])
            => AddendasFollowEntry(get_all_transactions(batches)[t])

\* an entry that passed trace_sequence_number 77 has an addenda with 77
AddendaOfPassedSequenceNumber ==
    \E t \in 1..Len(get_all_transactions(batches)) :
        /\ get_field_value(get_all_transactions(batches)[t].entry[1], "trace_sequence_number")
              = Numbered(77, 7)
        /\ Len(get_all_transactions(batches)[t].addendas) = 1
        /\ get_field_value(get_all_transactions(batches)[t].addendas[1],
                           "entry_detail_sequence_number") = Numbered(77, 7)


(***************************************************************************)
(* Properties of failed operations                                          *)
(***************************************************************************)
\* the call that ended was a removal by index or an addition through the
\* builder, and it raised
FailedTreeOperation ==
    /\ ret'.op \in {"remove_batch_by_index", "remove_transaction_by_index",
                    "add_entry_and_addenda"}
    /\ ret'.exc # "ok"

\* C30: remove_batch_by_index and remove_transaction_by_index with an index
\* out of range, and add_entry_and_addenda without a batch, with a batch
\* index out of range or with a value that fails record construction, leave
\* the header, the batch list, the transaction list, the cached control
\* record and the stale mark of every batch, and the cached file control and
\* its stale mark as they were.
C30_FailedOperationChangesNothing ==
    [][FailedTreeOperation
          => /\ batches' = batches
             /\ file_header_record' = file_header_record
             /\ file_control_record' = file_control_record
             /\ recalc_file_control' = recalc_file_control]_vars

\* an entry with an invalid amount was refused by the builder of a tree
\* whose file control and batch control are cached, the batch marked stale
C30_Witness ==
    /\ ret.op = "add_entry_and_addenda"
    /\ ret.exc = "RecordTypeAggregateFieldCreationError"
    /\ file_control_record # None
    /\ Len(batches) = 1
    /\ batches[1].batch_control_record # None
    /\ batches[1].recalc_batch_control
    /\ Len(batches[1].transactions) = 1


====
